---- MODULE Spec2Model ----
(***************************************************************************)
(* Model of the reference validation engine of azure-refcheck:             *)
(* validatePipelines (src/validators/validation.ts) with alias discovery   *)
(* and reference collection (src/validators/references.ts), the parsers    *)
(* (src/validators/parsers.ts), the path helpers (src/validators/utils.ts, *)
(* kept in src/src/index.ts), the VCS queries (src/utils/git.ts) and the   *)
(* caching filesystem (src/utils/filesystem.ts, kept in unnamed/part_004). *)
(*                                                                         *)
(* Strings are sequences of tokens.  A repository name "org/tpl" is        *)
(* <<"org", "tpl">>, a path "/r1/p.yml" is <<"/r1", "p.yml">>, the ref     *)
(* "refs/tags/v1" is <<"refs/tags/", "v1">>.  The empty sequence is the    *)
(* empty string and also stands for an absent optional string, which the   *)
(* code tests the same way (both are falsy).                               *)
(***************************************************************************)
EXTENDS Integers, Sequences, FiniteSets, TLC

\* Bound on the number of template lines of the scanned pipeline file.
MaxLines == 1

VARIABLES
    input,              \* argument of validatePipelines
    files,              \* repository path -> pipeline files found beneath it
    disk,               \* paths that exist in the checked-out working copies
    gitRefs,            \* [kind, version] refs that exist in the VCS repository
    gitFiles,           \* refs at which the template file exists
    pc,                 \* position inside validatePipelines
    i,                  \* index of the repository / reference handled next
    initialRepoConfigs, \* the normalized configuration list
    discoveredAliases,  \* repository name -> alias set (discovery pass)
    repoConfigs,        \* the enhanced configurations
    allReferences,      \* the collected references
    validReferences,    \* result bucket
    brokenReferences,   \* result bucket
    versionIssues,      \* result bucket
    isValid,            \* ValidationResult.isValid once returned
    existsCache,        \* CachingFileSystem.existsCache
    findCalls,          \* calls of findPipelineFiles: [phase, path]
    checks,             \* per validated reference: outcome and queries issued
    arg,                \* argument of a function applied on its own
    out,                \* <<result>> once that function has been applied
    contentCache,       \* CachingFileSystem.contentCache
    fileContent,        \* path -> content of the files RealFileSystem reads
    log                 \* what the watcher of watchRepositories has done

vars == <<input, files, disk, gitRefs, gitFiles, pc, i, initialRepoConfigs,
          discoveredAliases, repoConfigs, allReferences, validReferences,
          brokenReferences, versionIssues, isValid, existsCache, findCalls,
          checks, arg, out, contentCache, fileContent, log>>

\* The variables of validatePipelines
main == <<input, files, disk, gitRefs, gitFiles, pc, i, initialRepoConfigs,
          discoveredAliases, repoConfigs, allReferences, validReferences,
          brokenReferences, versionIssues, isValid, existsCache, findCalls,
          checks>>

\* The variables only CachingFileSystem on its own and the watcher change
shared == <<contentCache, fileContent, log>>

-----------------------------------------------------------------------------
(* Strings *)

NoString == <<>>

StartsWith(s, tok) == Len(s) > 0 /\ Head(s) = tok

\* version.startsWith("refs/")
RefsPrefixes == {"refs/tags/", "refs/heads/", "refs/pull/"}
StartsWithRefs(s) == Len(s) > 0 /\ Head(s) \in RefsPrefixes

\* /^[0-9a-f]{40}$/i : exactly one 40-hex token
IsHex40(s) == s = <<"HEX40">>

\* version.startsWith("v") && version.match(/^v\d/)
StartsWithVDigit(s) == Len(s) > 0 /\ Head(s) \in {"v1", "v2"}

\* Variant: no target is recognised as a declaration marker.
IsMarker_M(target) == FALSE

\* target.startsWith("repository:")
IsMarker(target) == StartsWith(target, "repository:")

\* target.startsWith("/")
IsRootAnchored(target) == StartsWith(target, "/")

Last(s) == s[Len(s)]
Front(s) == SubSeq(s, 1, Len(s) - 1)

\* path.normalize(path.join(...)): ".." removes the segment before it
RECURSIVE NormalizeFrom(_, _)
NormalizeFrom(acc, rest) ==
    IF rest = <<>> THEN acc
    ELSE IF Head(rest) = ".." /\ Len(acc) > 1
         THEN NormalizeFrom(Front(acc), Tail(rest))
    ELSE IF Head(rest) \in {"..", "/", "."}
         THEN NormalizeFrom(acc, Tail(rest))
    ELSE NormalizeFrom(Append(acc, Head(rest)), Tail(rest))

joinPaths(a, b) == NormalizeFrom(<<>>, a \o b)

dirname(p) == Front(p)

-----------------------------------------------------------------------------
(* parsers.ts *)

\* Variant: a string that begins with 40 hex characters is a commit.
parseVersionReference_M(ref) ==
    IF StartsWith(ref, "refs/tags/")
        THEN [version |-> Tail(ref), versionType |-> "tag"]
    ELSE IF StartsWith(ref, "refs/heads/")
        THEN [version |-> Tail(ref), versionType |-> "branch"]
    ELSE IF StartsWith(ref, "HEX40")
        THEN [version |-> ref, versionType |-> "commit"]
    ELSE [version |-> ref, versionType |-> "branch"]

parseVersionReference(ref) ==
    IF StartsWith(ref, "refs/tags/")
        THEN [version |-> Tail(ref), versionType |-> "tag"]
    ELSE IF StartsWith(ref, "refs/heads/")
        THEN [version |-> Tail(ref), versionType |-> "branch"]
    ELSE IF IsHex40(ref)
        THEN [version |-> ref, versionType |-> "commit"]
    ELSE [version |-> ref, versionType |-> "branch"]

\* The key under which a repositories entry is recorded: its alias when it
\* has both an alias and a name, its own name when it is a git entry with a
\* name only, nothing otherwise.
DeclAlias(d) ==
    IF d.repository # NoString /\ d.name # NoString THEN d.repository
    ELSE IF d.type = "git" /\ d.name # NoString THEN d.name
    ELSE NoString

\* Ordered entries of the `repos` record: a repeated alias keeps its first
\* position and takes the later name.
RECURSIVE DeclEntries(_, _)
DeclEntries(acc, decls) ==
    IF decls = <<>> THEN acc
    ELSE LET d == Head(decls)
             a == DeclAlias(d)
             seen == \E k \in 1..Len(acc) : acc[k].alias = a
             upd == [k \in 1..Len(acc) |->
                        IF acc[k].alias = a
                        THEN [alias |-> a, name |-> d.name]
                        ELSE acc[k]]
         IN  IF a = NoString THEN DeclEntries(acc, Tail(decls))
             ELSE IF seen THEN DeclEntries(upd, Tail(decls))
             ELSE DeclEntries(Append(acc, [alias |-> a, name |-> d.name]),
                              Tail(decls))

\* repoVersions[alias]: the parsed ref of the last declaration of the alias
\* that carries a ref; version NoString when there is none.
RECURSIVE DeclVersion(_, _, _)
DeclVersion(alias, decls, acc) ==
    IF decls = <<>> THEN acc
    ELSE LET d == Head(decls)
         IN  IF DeclAlias(d) = alias /\ d.ref # NoString
             THEN DeclVersion(alias, Tail(decls), parseVersionReference(d.ref))
             ELSE DeclVersion(alias, Tail(decls), acc)

NoVersionInfo == [version |-> NoString, versionType |-> ""]

extractRepositoryDeclarations(content) ==
    LET entries == DeclEntries(<<>>, content.decls)
    IN  [repos |-> entries,
         repoVersions |-> [a \in {entries[k].alias : k \in 1..Len(entries)}
                              |-> DeclVersion(a, content.decls, NoVersionInfo)]]

\* A line of the file that holds no template reference (a line of the
\* resources block, a step, a comment): no pattern matches it.
Blank == [target |-> NoString, repo |-> NoString, listItem |-> FALSE]

\* One reference per pattern match.  Every template line matches the plain
\* local pattern; a list item also matches the list-item pattern; only a line
\* with an @alias suffix matches the external patterns.
Context(line) ==
    <<"template:">> \o line.target
        \o (IF line.repo = NoString THEN <<>> ELSE <<"@">> \o line.repo)

MatchRef(filePath, lines, k, external) ==
    [source |-> filePath, target |-> lines[k].target,
     targetRepo |-> IF external THEN lines[k].repo ELSE NoString,
     targetVersion |-> NoString, versionType |-> "",
     lineNumber |-> k, context |-> Context(lines[k])]

RECURSIVE PatternMatches(_, _, _, _, _)
PatternMatches(filePath, lines, k, external, listPattern) ==
    IF k > Len(lines) THEN <<>>
    ELSE LET hit == /\ lines[k].target # NoString
                    /\ (external => lines[k].repo # NoString)
                    /\ (listPattern => lines[k].listItem)
         IN  (IF hit THEN <<MatchRef(filePath, lines, k, external)>> ELSE <<>>)
             \o PatternMatches(filePath, lines, k + 1, external, listPattern)

extractReferencesFromPatterns(filePath, content, external) ==
    PatternMatches(filePath, content.lines, 1, external, FALSE)
        \o PatternMatches(filePath, content.lines, 1, external, TRUE)

RefKey(r) == <<r.source, r.lineNumber, r.target>>

\* uniqueRefs: a Map keeps the position of the first insertion of a key.
RECURSIVE MapSetAll(_, _, _)
MapSetAll(map, refs, overwrite) ==
    IF refs = <<>> THEN map
    ELSE LET r == Head(refs)
             has == \E k \in 1..Len(map) : RefKey(map[k]) = RefKey(r)
             upd == [k \in 1..Len(map) |->
                        IF RefKey(map[k]) = RefKey(r) THEN r ELSE map[k]]
         IN  IF ~has THEN MapSetAll(Append(map, r), Tail(refs), overwrite)
             ELSE IF overwrite THEN MapSetAll(upd, Tail(refs), overwrite)
             ELSE MapSetAll(map, Tail(refs), overwrite)

\* Variant: the declared version is not applied to the references.
BackFill_M(references, alias, versionInfo) == references

\* references.ts 81-87: every reference collected so far that uses the alias
\* and has no version takes the declared one.
BackFill(references, alias, versionInfo) ==
    [k \in 1..Len(references) |->
        IF /\ references[k].targetRepo = alias
           /\ references[k].targetVersion = NoString
           /\ versionInfo.version # NoString
        THEN [references[k] EXCEPT !.targetVersion = versionInfo.version,
                                   !.versionType = versionInfo.versionType]
        ELSE references[k]]

\* The declaration loop of extractReferences: push the marker, then back-fill
\* every reference collected so far that uses the alias and has no version.
RECURSIVE AddDeclarations(_, _, _, _)
AddDeclarations(filePath, refs, entries, versions) ==
    IF entries = <<>> THEN refs
    ELSE LET e == Head(entries)
             v == versions[e.alias]
             marker == [source |-> filePath,
                        target |-> <<"repository:">> \o e.name,
                        targetRepo |-> e.alias,
                        targetVersion |-> v.version,
                        versionType |-> IF v.version # NoString
                                        THEN v.versionType ELSE "",
                        lineNumber |-> 0,
                        context |-> <<"Repository reference: ">> \o e.alias
                                        \o <<" -> ">> \o e.name]
         IN  AddDeclarations(filePath, BackFill(Append(refs, marker), e.alias, v),
                             Tail(entries), versions)

\* Variant: an external match does not replace a local match of the same key.
extractReferences_M(filePath, content) ==
    LET localReferences == extractReferencesFromPatterns(filePath, content, FALSE)
        externalReferences == extractReferencesFromPatterns(filePath, content, TRUE)
        uniqueRefs == MapSetAll(MapSetAll(<<>>, localReferences, FALSE),
                                externalReferences, FALSE)
        d == extractRepositoryDeclarations(content)
    IN  AddDeclarations(filePath, uniqueRefs, d.repos, d.repoVersions)

extractReferences(filePath, content) ==
    LET localReferences == extractReferencesFromPatterns(filePath, content, FALSE)
        externalReferences == extractReferencesFromPatterns(filePath, content, TRUE)
        uniqueRefs == MapSetAll(MapSetAll(<<>>, localReferences, FALSE),
                                externalReferences, TRUE)
        d == extractRepositoryDeclarations(content)
    IN  AddDeclarations(filePath, uniqueRefs, d.repos, d.repoVersions)

-----------------------------------------------------------------------------
(* validators/utils.ts *)

\* Index of the configuration found by findRepoConfig, 0 when there is none:
\* the first configuration with that name, else the first having the alias.
findRepoConfig(repoName, configs) ==
    LET byName == {k \in 1..Len(configs) : configs[k].name = repoName}
        byAlias == {k \in 1..Len(configs) : repoName \in configs[k].aliases}
        Min(S) == CHOOSE k \in S : \A m \in S : k <= m
    IN  IF byName # {} THEN Min(byName)
        ELSE IF byAlias # {} THEN Min(byAlias)
        ELSE 0

\* The working directory of the process.
Cwd == <<"/cwd">>

\* git -C dirname(source) rev-parse --show-toplevel, when it succeeds: the
\* repository that holds the source file.
RepoRootOf(sourcePath) == <<Head(sourcePath)>>

\* Variant: a relative target is joined to the working directory.
resolveTargetPath_M(sourcePath, targetPath, rootOk) ==
    IF IsMarker(targetPath) THEN targetPath
    ELSE IF IsRootAnchored(targetPath)
        THEN IF rootOk
             THEN joinPaths(RepoRootOf(sourcePath), Tail(targetPath))
             ELSE joinPaths(Cwd, targetPath)
    ELSE joinPaths(Cwd, targetPath)

\* resolveTargetPath(sourcePath, targetPath) as validateLocalReference calls
\* it (no target repository, no configurations); rootOk tells whether the
\* repository root lookup succeeds.
resolveTargetPath(sourcePath, targetPath, rootOk) ==
    IF IsMarker(targetPath) THEN targetPath
    ELSE IF IsRootAnchored(targetPath)
        THEN IF rootOk
             THEN joinPaths(RepoRootOf(sourcePath), Tail(targetPath))
             ELSE joinPaths(Cwd, targetPath)
    ELSE joinPaths(dirname(sourcePath), targetPath)

\* index.ts 116-128: c is what findRepoConfig answered
CrossRepoPath(targetPath, targetRepo, configs, c) ==
    IF c # 0 /\ configs[c].path # NoString
    THEN IF IsRootAnchored(targetPath)
         THEN joinPaths(configs[c].path, Tail(targetPath))
         ELSE joinPaths(configs[c].path, targetPath)
    ELSE targetRepo \o <<":">> \o targetPath

\* index.ts 100-152 with the optional parameters: targetRepo is NoString
\* when not passed, configsArg (repoConfigs) is <<>> when not passed and <<list>> when a
\* list is passed.
resolveTargetPathIn(sourcePath, targetPath, targetRepo, configsArg, rootOk) ==
    IF IsMarker(targetPath) THEN targetPath
    ELSE IF targetRepo # NoString /\ configsArg # <<>>
    THEN CrossRepoPath(targetPath, targetRepo, configsArg[1],
                       findRepoConfig(targetRepo, configsArg[1]))
    ELSE resolveTargetPath(sourcePath, targetPath, rootOk)

-----------------------------------------------------------------------------
(* utils/git.ts.  The VCS repository is the working copy at GitRepoPath;    *)
(* a command run in any other directory fails.                              *)

GitRepoPath == <<"/r2">>

\* The one template file the VCS repository may hold at a ref.
TemplateFile == <<"b.yml">>

\* version occurs in name as a contiguous substring ("*version*")
Contains(name, version) ==
    \E k \in 0..(Len(name) - Len(version)) :
        SubSeq(name, k + 1, k + Len(version)) = version

\* Output of the ref listing command is non-empty.
RefListed(version, type) ==
    CASE type = "tag" -> [kind |-> "tag", version |-> version] \in gitRefs
      [] type = "commit" -> \E r \in gitRefs : r.version = version
      [] OTHER -> \E r \in gitRefs : /\ r.kind \in {"branch", "remote"}
                                      /\ Contains(r.version, version)

\* child_process.execSync of the ref listing command: "failed" when the
\* command exits non-zero (execSync throws), else whether it printed anything.
\* cat-file -t fails for an object the repository does not hold; the listing
\* commands print nothing when no ref matches.
RefQuery(repoPath, version, type) ==
    IF repoPath # GitRepoPath THEN "failed"
    ELSE IF RefListed(version, type) THEN "output"
    ELSE IF type = "commit" THEN "failed"
    ELSE "empty"

\* Variant: every version is reported as existing.
validateRepoVersion_M(repoPath, version, type) ==
    IF version = NoString
    THEN [threw |-> FALSE, result |-> TRUE, commands |-> <<>>]
    ELSE [threw |-> FALSE, result |-> TRUE,
          commands |-> <<[version |-> version, kind |-> type]>>]

\* git.ts 24-57: the command runs inside try, the catch returns false
validateRepoVersion(repoPath, version, type) ==
    IF version = NoString
    THEN [threw |-> FALSE, result |-> TRUE, commands |-> <<>>]
    ELSE [threw |-> FALSE,
          result |-> RefQuery(repoPath, version, type) = "output",
          commands |-> <<[version |-> version, kind |-> type]>>]

\* Variant: a tag is looked up in the branches namespace.
refSpec_M(version, type) ==
    IF type \in {"tag", "branch"} THEN <<"refs/heads/">> \o version ELSE version

\* git.ts 88-113: the fully qualified ref validateFileAtVersion queries (for
\* a branch, the local namespace it tries first).
refSpec(version, type) ==
    IF type = "tag" THEN <<"refs/tags/">> \o version
    ELSE IF type = "branch" THEN <<"refs/heads/">> \o version
    ELSE version

StripRoot(filePath) == IF IsRootAnchored(filePath) THEN Tail(filePath) ELSE filePath

\* git cat-file -e <refSpec>:<relPath> succeeds; type names the namespace of
\* the refSpec: refs/tags/, refs/heads/ ("branch"), refs/remotes/origin/
\* ("remote"), or none.
ObjectAt(repoPath, version, type, relPath) ==
    /\ repoPath = GitRepoPath
    /\ relPath = TemplateFile
    /\ CASE type = "tag" -> [kind |-> "tag", version |-> version] \in gitFiles
         [] type = "branch" -> [kind |-> "branch", version |-> version] \in gitFiles
         [] type = "remote" -> [kind |-> "remote", version |-> version] \in gitFiles
         [] OTHER -> \E r \in gitFiles : r.version = version

\* Variant: a branch is looked up in the local namespace only.
BranchFileAt_M(repoPath, version, relPath) ==
    [threw |-> FALSE,
     result |-> ObjectAt(repoPath, version, "branch", relPath),
     commands |-> <<[version |-> version, kind |-> "branch"]>>,
     diskChecks |-> <<>>]

\* git.ts 92-110: the local namespace, and after its failure the
\* remote-tracking one
BranchFileAt(repoPath, version, relPath) ==
    IF ObjectAt(repoPath, version, "branch", relPath)
    THEN [threw |-> FALSE, result |-> TRUE,
          commands |-> <<[version |-> version, kind |-> "branch"]>>,
          diskChecks |-> <<>>]
    ELSE [threw |-> FALSE,
          result |-> ObjectAt(repoPath, version, "remote", relPath),
          commands |-> <<[version |-> version, kind |-> "branch"],
                         [version |-> version, kind |-> "remote"]>>,
          diskChecks |-> <<>>]

\* git.ts 62-127: every query runs inside try, the catch returns false
validateFileAtVersion(repoPath, filePath, version, type) ==
    IF version = NoString
    THEN [threw |-> FALSE,
          result |-> joinPaths(repoPath, StripRoot(filePath)) \in disk,
          commands |-> <<>>,
          diskChecks |-> <<joinPaths(repoPath, StripRoot(filePath))>>]
    ELSE IF type = "branch"
    THEN BranchFileAt(repoPath, version, StripRoot(filePath))
    ELSE [threw |-> FALSE,
          result |-> ObjectAt(repoPath, version, type, StripRoot(filePath)),
          commands |-> <<[version |-> version, kind |-> type]>>,
          diskChecks |-> <<>>]

-----------------------------------------------------------------------------
(* utils/filesystem.ts: fileExists goes through CachingFileSystem.exists.   *)

\* throws: the underlying filesystem raises instead of answering.
fileExists(cache, filePath, throws) ==
    IF filePath \in DOMAIN cache
    THEN [threw |-> FALSE, result |-> cache[filePath], cache |-> cache]
    ELSE IF throws
    THEN [threw |-> TRUE, result |-> FALSE, cache |-> cache]
    ELSE [threw |-> FALSE, result |-> filePath \in disk,
          cache |-> (filePath :> (filePath \in disk)) @@ cache]

-----------------------------------------------------------------------------
(* validators/validation.ts.  Each validate* operator returns what the call *)
(* does: the outcome, the bucket entry it pushes, the reference as the call *)
(* leaves it, and the queries it issues.                                     *)

VALID == "valid"
BROKEN_PATH == "broken_path"
MISSING_REPO == "missing_repo"
INVALID_VERSION == "invalid_version"

\* Variant: a version without a kind is always taken as a branch.
InferVersionType_M(version) == "branch"

\* versionType inferred from the shape of a version (lines 72-80, 119-125)
InferVersionType(version) ==
    IF IsHex40(version) THEN "commit"
    ELSE IF StartsWithVDigit(version) THEN "tag"
    ELSE "branch"

\* Variant: the reference itself is given the new target and pushed.
Copy_M(reference, target) == [copy |-> FALSE, rec |-> [reference EXCEPT !.target = target]]

\* A pushed entry: the reference object itself (copy = FALSE) or a new record.
Same(reference) == [copy |-> FALSE, rec |-> reference]
Copy(reference, target) == [copy |-> TRUE, rec |-> [reference EXCEPT !.target = target]]

\* The queries a call issued: calls of validateRepoVersion and the VCS
\* commands they ran, calls of validateFileAtVersion and their VCS commands,
\* paths checked through fileExists, paths checked on disk directly.
Queries(refCalls, refCmds, fileCalls, fileCmds, fsChecks, diskChecks) ==
    [refCalls |-> refCalls, refCmds |-> refCmds, fileCalls |-> fileCalls,
     fileCmds |-> fileCmds, fsChecks |-> fsChecks, diskChecks |-> diskChecks]

Result(threw, outcome, bucket, entry, reference, q, cache) ==
    [threw |-> threw, outcome |-> outcome, bucket |-> bucket, entry |-> entry,
     reference |-> reference, refCalls |-> q.refCalls, refCmds |-> q.refCmds,
     fileCalls |-> q.fileCalls, fileCmds |-> q.fileCmds, fsChecks |-> q.fsChecks,
     diskChecks |-> q.diskChecks, cache |-> cache]

\* The version and type validateExternalReference settles on (lines 49-81).
ChosenVersion(reference, config) ==
    LET raw == IF reference.targetVersion # NoString
               THEN [version |-> reference.targetVersion,
                     versionType |-> reference.versionType]
               ELSE IF config.ref # NoString
               THEN [version |-> config.ref, versionType |-> ""]
               ELSE NoVersionInfo
    IN  IF raw.version = NoString THEN raw
        ELSE IF StartsWithRefs(raw.version) THEN parseVersionReference(raw.version)
        ELSE IF raw.versionType = ""
             THEN [raw EXCEPT !.versionType = InferVersionType(raw.version)]
        ELSE raw

\* Variant: the skipValidation flag is ignored.
SkipsValidation_M(config) == FALSE

\* line 40: the target configuration short-circuits validation
SkipsValidation(config) == config.skipValidation

\* lines 113-148: the file is looked up at the version in the target
\* repository; fileCheck is what validateFileAtVersion answered.
ExternalFileChecked(updated, targetRepo, versionToUse, versionTypeToUse, checked, fileCheck, cache) ==
    LET fileCalls == <<[version |-> versionToUse, kind |-> versionTypeToUse]>>
        queried == [checked EXCEPT !.fileCalls = fileCalls,
                                   !.fileCmds = fileCheck.commands,
                                   !.diskChecks = fileCheck.diskChecks]
    IN  IF ~fileCheck.result
        THEN Result(FALSE, BROKEN_PATH, "broken",
                    Copy(updated, <<"Template not found: ">> \o updated.target
                                    \o <<" in repo ">> \o targetRepo
                                    \o (IF versionToUse # NoString
                                        THEN <<" at version ">> \o versionToUse
                                        ELSE <<>>)),
                    updated, queried, cache)
        ELSE Result(FALSE, VALID, "valid", Same(updated), updated, queried, cache)

\* Variant: a file found in the working copy settles the outcome, whatever
\* the version.
ExternalPathChecked_M(updated, targetRepo, config, q, resolvedPath, onDisk) ==
    LET checked == [q EXCEPT !.fsChecks = <<resolvedPath>>]
    IN  IF onDisk.threw
        THEN Result(TRUE, BROKEN_PATH, "broken", Same(updated), updated, checked,
                    onDisk.cache)
        ELSE IF onDisk.result
        THEN Result(FALSE, VALID, "valid", Same(updated), updated, checked,
                    onDisk.cache)
        ELSE ExternalFileChecked(updated, targetRepo, updated.targetVersion,
                                 updated.versionType, checked,
                                 validateFileAtVersion(config.path, updated.target,
                                                       updated.targetVersion,
                                                       updated.versionType),
                                 onDisk.cache)

\* lines 100-125: onDisk is what fileExists answered for resolvedPath
ExternalPathChecked(updated, targetRepo, config, q, resolvedPath, onDisk) ==
    LET checked == [q EXCEPT !.fsChecks = <<resolvedPath>>]
        versionToUse == IF updated.targetVersion # NoString
                        THEN updated.targetVersion ELSE config.ref
        versionTypeToUse == IF versionToUse # NoString /\ updated.versionType = ""
                            THEN InferVersionType(versionToUse)
                            ELSE updated.versionType
    IN  IF onDisk.threw
        THEN Result(TRUE, BROKEN_PATH, "broken", Same(updated), updated, checked,
                    onDisk.cache)
        ELSE IF onDisk.result /\ updated.targetVersion = NoString
        THEN Result(FALSE, VALID, "valid", Same(updated), updated, checked,
                    onDisk.cache)
        ELSE ExternalFileChecked(updated, targetRepo, versionToUse, versionTypeToUse,
                                 checked,
                                 validateFileAtVersion(config.path, updated.target,
                                                       versionToUse, versionTypeToUse),
                                 onDisk.cache)

\* lines 98-100: updated is the reference after lines 94-95
ExternalPath(updated, targetRepo, config, q, cache, fsThrows) ==
    LET resolvedPath == joinPaths(config.path, StripRoot(updated.target))
    IN  ExternalPathChecked(updated, targetRepo, config, q, resolvedPath,
                            fileExists(cache, resolvedPath, fsThrows))

\* lines 83-96: refCheck is what validateRepoVersion answered for the chosen
\* version; lines 94-95 update the reference in place.
ExternalVersionChecked(reference, targetRepo, config, chosen, refCheck, cache, fsThrows) ==
    LET hasVersion == reference.targetVersion # NoString \/ config.ref # NoString
        refCalls == IF hasVersion
                    THEN <<[version |-> chosen.version, kind |-> chosen.versionType]>>
                    ELSE <<>>
        refCmds == IF hasVersion THEN refCheck.commands ELSE <<>>
        q == Queries(refCalls, refCmds, <<>>, <<>>, <<>>, <<>>)
    IN  IF hasVersion /\ ~refCheck.result
        THEN Result(FALSE, INVALID_VERSION, "version",
                    [copy |-> TRUE,
                     rec |-> [reference EXCEPT
                                !.target = <<"Invalid version ">> \o chosen.version
                                             \o <<" in repo ">> \o targetRepo,
                                !.targetVersion = chosen.version,
                                !.versionType = chosen.versionType]],
                    reference, q, cache)
        ELSE ExternalPath(IF hasVersion
                          THEN [reference EXCEPT !.targetVersion = chosen.version,
                                                 !.versionType = chosen.versionType]
                          ELSE reference,
                          targetRepo, config, q, cache, fsThrows)

\* lines 49-83: chosen is the version and type settled on
ExternalVersion(reference, targetRepo, config, chosen, cache, fsThrows) ==
    ExternalVersionChecked(reference, targetRepo, config, chosen,
                           validateRepoVersion(config.path, chosen.version,
                                               chosen.versionType),
                           cache, fsThrows)

\* Variant: a reference into an unknown repository is accepted.
ExternalConfig_M(reference, targetRepo, configs, c, cache, fsThrows) ==
    IF c = 0 \/ SkipsValidation(configs[c])
    THEN Result(FALSE, VALID, "valid", Same(reference), reference,
                Queries(<<>>, <<>>, <<>>, <<>>, <<>>, <<>>), cache)
    ELSE ExternalVersion(reference, targetRepo, configs[c],
                         ChosenVersion(reference, configs[c]), cache, fsThrows)

\* lines 25-47: c is what findRepoConfig answered
ExternalConfig(reference, targetRepo, configs, c, cache, fsThrows) ==
    IF c = 0
    THEN Result(FALSE, MISSING_REPO, "broken",
                Copy(reference, <<"Unknown repository: ">> \o targetRepo),
                reference, Queries(<<>>, <<>>, <<>>, <<>>, <<>>, <<>>), cache)
    ELSE IF SkipsValidation(configs[c])
    THEN Result(FALSE, VALID, "valid", Same(reference), reference,
                Queries(<<>>, <<>>, <<>>, <<>>, <<>>, <<>>), cache)
    ELSE ExternalVersion(reference, targetRepo, configs[c],
                         ChosenVersion(reference, configs[c]), cache, fsThrows)

validateExternalReference(reference, targetRepo, configs, cache, fsThrows) ==
    ExternalConfig(reference, targetRepo, configs,
                   findRepoConfig(targetRepo, configs), cache, fsThrows)

\* lines 160-171: onDisk is what fileExists answered for resolvedPath
LocalPathChecked(reference, resolvedPath, onDisk) ==
    LET checked == Queries(<<>>, <<>>, <<>>, <<>>, <<resolvedPath>>, <<>>)
    IN  IF onDisk.threw
        THEN Result(TRUE, BROKEN_PATH, "broken", Same(reference), reference,
                    checked, onDisk.cache)
        ELSE IF onDisk.result
        THEN Result(FALSE, VALID, "valid", Same(reference), reference, checked,
                    onDisk.cache)
        ELSE Result(FALSE, BROKEN_PATH, "broken", Copy(reference, resolvedPath),
                    reference, checked, onDisk.cache)

\* lines 158-160
LocalPathResolved(reference, resolvedPath, cache, fsThrows) ==
    LocalPathChecked(reference, resolvedPath, fileExists(cache, resolvedPath, fsThrows))

validateLocalReference(reference, cache, fsThrows, rootOk) ==
    LocalPathResolved(reference,
                      resolveTargetPath(reference.source, reference.target, rootOk),
                      cache, fsThrows)

\* The catch block of validateReference (lines 208-223)
ErrorMessage == <<"Unexpected error">>

\* lines 208-223: r is what the try block produced
Caught(r) ==
    IF r.threw
    THEN [r EXCEPT !.entry = Copy(r.reference,
                                  <<"Error validating: ">> \o r.reference.target
                                    \o <<" - ">> \o ErrorMessage)]
    ELSE r

\* Variant: the catch block records the reference without rewriting its target.
validateReference_M(reference, configs, cache, fsThrows, rootOk) ==
    IF reference.targetRepo # NoString
    THEN validateExternalReference(reference, reference.targetRepo,
                                   configs, cache, fsThrows)
    ELSE validateLocalReference(reference, cache, fsThrows, rootOk)

validateReference(reference, configs, cache, fsThrows, rootOk) ==
    Caught(IF reference.targetRepo # NoString
           THEN validateExternalReference(reference, reference.targetRepo,
                                          configs, cache, fsThrows)
           ELSE validateLocalReference(reference, cache, fsThrows, rootOk))

-----------------------------------------------------------------------------
(* validators/references.ts *)

\* readFileContent returns "" when the read fails.
EmptyContent == [decls |-> <<>>, lines |-> <<>>]

ContentRead(file, ok) == IF ok THEN file.content ELSE EmptyContent

\* findPipelineFiles(path) when it succeeds
findPipelineFilesIn(fs, path) == IF path \in DOMAIN fs THEN fs[path] ELSE <<>>

findPipelineFiles(path) == findPipelineFilesIn(files, path)

\* repoNameMap.get(key): every configuration is set under its name and under
\* the last segment of its name; a later set replaces an earlier one.
\* Returns the index of the configuration, 0 when the key is absent.
StrippedName(name) == <<Last(name)>>

repoNameMap(configs, key) ==
    LET hits == {k \in 1..Len(configs) :
                    configs[k].name = key \/ StrippedName(configs[k].name) = key}
    IN  IF hits = {} THEN 0 ELSE CHOOSE k \in hits : \A m \in hits : m <= k

\* lines 180-190: the aliases one file adds
RECURSIVE AddAliases(_, _, _)
AddAliases(aliases, configs, entries) ==
    IF entries = <<>> THEN aliases
    ELSE LET e == Head(entries)
             t == repoNameMap(configs, e.name)
         IN  IF t = 0 THEN AddAliases(aliases, configs, Tail(entries))
             ELSE AddAliases([aliases EXCEPT ![configs[t].name] = @ \cup {e.alias}],
                             configs, Tail(entries))

RECURSIVE ScanFilesForAliases(_, _, _, _, _)
ScanFilesForAliases(aliases, configs, fileList, k, readable) ==
    IF k > Len(fileList) THEN aliases
    ELSE ScanFilesForAliases(
            AddAliases(aliases, configs,
                       extractRepositoryDeclarations(
                           ContentRead(fileList[k], k \in readable)).repos),
            configs, fileList, k + 1, readable)

\* Variant: the discovery pass starts from empty alias sets.
InitialAliases_M(configs) == [n \in {configs[k].name : k \in 1..Len(configs)} |-> {}]

\* references.ts 163-168: a later configuration of the same name replaces the
\* set of an earlier one.
InitialAliases(configs) ==
    LET names == {configs[k].name : k \in 1..Len(configs)}
        lastOf(n) == CHOOSE k \in 1..Len(configs) :
                        /\ configs[k].name = n
                        /\ \A m \in 1..Len(configs) : configs[m].name = n => m <= k
    IN  [n \in names |-> configs[lastOf(n)].aliases]

\* Variant: the result carries only the aliases the configuration lacked.
EnhancedConfigs_M(configs, aliases) ==
    [k \in 1..Len(configs) |->
        [configs[k] EXCEPT !.aliases = aliases[configs[k].name] \ configs[k].aliases]]

\* references.ts 201-212
EnhancedConfigs(configs, aliases) ==
    [k \in 1..Len(configs) |-> [configs[k] EXCEPT !.aliases = aliases[configs[k].name]]]

\* references.ts 171-198 when every file is found and read
RECURSIVE ScanRepos(_, _, _, _)
ScanRepos(aliases, configs, k, fs) ==
    IF k > Len(configs) THEN aliases
    ELSE ScanRepos(ScanFilesForAliases(aliases, configs,
                                       findPipelineFilesIn(fs, configs[k].path), 1,
                                       1..Len(findPipelineFilesIn(fs, configs[k].path))),
                   configs, k + 1, fs)

\* discoverRepositoryAliases(repoConfigs) over the files fs
discoverRepositoryAliases(configs, fs) ==
    EnhancedConfigs(configs, ScanRepos(InitialAliases(configs), configs, 1, fs))

RECURSIVE CollectFiles(_, _, _)
CollectFiles(fileList, k, readable) ==
    IF k > Len(fileList) THEN <<>>
    ELSE extractReferences(fileList[k].path, ContentRead(fileList[k], k \in readable))
            \o CollectFiles(fileList, k + 1, readable)

-----------------------------------------------------------------------------
(* The inputs *)

Name1 == <<"main">>
Name2 == <<"org", "tpl">>
Path1 == <<"/r1">>
Path2 == <<"/r2">>
AliasT == <<"t">>

ConfigRefs == {NoString, <<"main">>, <<"refs/heads/">>}
DeclRefs == {NoString, <<"refs/heads/", "main">>, <<"refs/tags/", "v1">>}
DeclNames == {<<"tpl">>, <<"nope">>}

Config1 ==
    [name |-> Name1, path |-> Path1, aliases |-> {}, ref |-> NoString,
     skipValidation |-> FALSE]

Configs2 ==
    {[name |-> Name2, path |-> Path2, aliases |-> al, ref |-> r,
      skipValidation |-> sk] :
        al \in {{}, {AliasT}}, r \in ConfigRefs, sk \in BOOLEAN}

Inputs ==
    {[isPath |-> TRUE, path |-> Path1, configs |-> <<>>]}
    \cup {[isPath |-> FALSE, path |-> NoString, configs |-> <<Config1, c2>>] :
            c2 \in Configs2}

LineKinds ==
    {[target |-> <<"a.yml">>, repo |-> NoString, listItem |-> TRUE],
     [target |-> <<"/", "a.yml">>, repo |-> NoString, listItem |-> FALSE],
     [target |-> <<"b.yml">>, repo |-> AliasT, listItem |-> FALSE]}

RECURSIVE SeqsUpTo(_, _)
SeqsUpTo(S, n) ==
    IF n = 0 THEN {<<>>}
    ELSE LET shorter == SeqsUpTo(S, n - 1)
         IN  shorter \cup {Append(q, x) : q \in shorter, x \in S}

Decls ==
    {<<>>} \cup {<<[repository |-> AliasT, name |-> n, type |-> "git", ref |-> r]>> :
                    n \in DeclNames, r \in DeclRefs}

Contents == {[decls |-> d, lines |-> l] : d \in Decls, l \in SeqsUpTo(LineKinds, MaxLines)}

File2 ==
    [path |-> <<"/r2", "q.yml">>,
     content |-> [decls |-> <<>>,
                  lines |-> <<[target |-> <<"b.yml">>, repo |-> NoString,
                               listItem |-> FALSE]>>]]

DiskPaths == {<<"/r1", "a.yml">>, <<"/r2", "b.yml">>}

\* The refs the VCS repository may have; a run meets at most one of them.
GitUniverse == {[kind |-> "branch", version |-> <<"main">>],
                [kind |-> "tag", version |-> <<"v1">>]}

GitRefSets == {{}} \cup {{r} : r \in GitUniverse}

-----------------------------------------------------------------------------
(* validatePipelines *)

Init ==
    /\ input \in Inputs
    /\ \E c \in Contents :
          files = (Path1 :> <<[path |-> <<"/r1", "p.yml">>, content |-> c]>>)
                    @@ (Path2 :> <<File2>>)
    /\ disk \in SUBSET DiskPaths
    /\ gitRefs \in GitRefSets
    /\ gitFiles \in SUBSET gitRefs
    /\ pc = "start"
    /\ i = 1
    /\ initialRepoConfigs = <<>>
    /\ discoveredAliases = <<>>
    /\ repoConfigs = <<>>
    /\ allReferences = <<>>
    /\ validReferences = <<>>
    /\ brokenReferences = <<>>
    /\ versionIssues = <<>>
    /\ isValid = FALSE
    /\ existsCache = <<>>
    /\ findCalls = <<>>
    /\ checks = <<>>
    /\ contentCache = <<>>
    /\ fileContent = <<>>
    /\ log = <<>>
    /\ arg = <<>>
    /\ out = <<>>

\* lines 236-239 and references.ts 150-168
Start ==
    /\ pc = "start"
    /\ LET cfgs == IF input.isPath
                   THEN <<[name |-> <<"repo">>, path |-> input.path, aliases |-> {},
                           ref |-> NoString, skipValidation |-> FALSE]>>
                   ELSE input.configs
       IN  /\ initialRepoConfigs' = cfgs
           /\ discoveredAliases' = InitialAliases(cfgs)
    /\ pc' = "discover"
    /\ i' = 1
    /\ UNCHANGED <<arg, out, shared>>
    /\ UNCHANGED <<input, files, disk, gitRefs, gitFiles, repoConfigs,
                   allReferences, validReferences, brokenReferences,
                   versionIssues, isValid, existsCache, findCalls, checks>>

\* references.ts 171-198: one repository of the discovery pass.  The call of
\* findPipelineFiles is outside every try block: when it fails the exception
\* leaves discoverRepositoryAliases and validatePipelines.
DiscoverRepo ==
    /\ pc = "discover"
    /\ i <= Len(initialRepoConfigs)
    /\ LET repo == initialRepoConfigs[i]
           fileList == findPipelineFiles(repo.path)
       IN  /\ findCalls' = Append(findCalls, [phase |-> "discover", path |-> repo.path])
           /\ \E found \in BOOLEAN :
                IF ~found
                THEN /\ pc' = "thrown"
                     /\ UNCHANGED <<i, discoveredAliases>>
                ELSE /\ \E readable \in SUBSET (1..Len(fileList)) :
                          discoveredAliases' =
                              ScanFilesForAliases(discoveredAliases, initialRepoConfigs,
                                                  fileList, 1, readable)
                     /\ i' = i + 1
                     /\ pc' = IF i = Len(initialRepoConfigs) THEN "enhance" ELSE "discover"
    /\ UNCHANGED <<arg, out, shared>>
    /\ UNCHANGED <<input, files, disk, gitRefs, gitFiles, initialRepoConfigs,
                   repoConfigs, allReferences, validReferences, brokenReferences,
                   versionIssues, isValid, existsCache, checks>>

\* Variant: the discovered aliases are written into the caller's
\* configurations, which are returned.
EnhanceConfigs_M ==
    /\ pc = "enhance"
    /\ repoConfigs' = EnhancedConfigs(initialRepoConfigs, discoveredAliases)
    /\ initialRepoConfigs' = repoConfigs'
    /\ pc' = "collect"
    /\ i' = 1
    /\ UNCHANGED <<arg, out, shared>>
    /\ UNCHANGED <<input, files, disk, gitRefs, gitFiles,
                   discoveredAliases, allReferences, validReferences,
                   brokenReferences, versionIssues, isValid, existsCache,
                   findCalls, checks>>

\* references.ts 201-212
EnhanceConfigs ==
    /\ pc = "enhance"
    /\ repoConfigs' = EnhancedConfigs(initialRepoConfigs, discoveredAliases)
    /\ pc' = "collect"
    /\ i' = 1
    /\ UNCHANGED <<arg, out, shared>>
    /\ UNCHANGED <<input, files, disk, gitRefs, gitFiles, initialRepoConfigs,
                   discoveredAliases, allReferences, validReferences,
                   brokenReferences, versionIssues, isValid, existsCache,
                   findCalls, checks>>

\* references.ts 109-133: one repository of the collection pass
CollectRepo ==
    /\ pc = "collect"
    /\ i <= Len(repoConfigs)
    /\ LET repo == repoConfigs[i]
           fileList == findPipelineFiles(repo.path)
       IN  /\ findCalls' = Append(findCalls, [phase |-> "collect", path |-> repo.path])
           /\ \E found \in BOOLEAN :
                IF ~found
                THEN UNCHANGED allReferences
                ELSE \E readable \in SUBSET (1..Len(fileList)) :
                        allReferences' = allReferences \o CollectFiles(fileList, 1, readable)
    /\ i' = IF i = Len(repoConfigs) THEN 1 ELSE i + 1
    /\ pc' = IF i = Len(repoConfigs) THEN "validate" ELSE "collect"
    /\ UNCHANGED <<arg, out, shared>>
    /\ UNCHANGED <<input, files, disk, gitRefs, gitFiles, initialRepoConfigs,
                   discoveredAliases, repoConfigs, validReferences,
                   brokenReferences, versionIssues, isValid, existsCache, checks>>

\* Variant: only brokenReferences is consulted.
ComputeIsValid_M(broken, issues) == Len(broken) = 0

\* line 277
ComputeIsValid(broken, issues) == Len(broken) = 0 /\ Len(issues) = 0

\* Variant: an entry made by the catch block is dropped.
Push_M(bucket, name, r) ==
    IF r.bucket = name /\ ~r.threw THEN Append(bucket, r.entry) ELSE bucket

Push(bucket, name, r) == IF r.bucket = name THEN Append(bucket, r.entry) ELSE bucket

\* validation.ts 261-264: a repository marker is taken as valid
RecordMarker(reference) ==
    /\ validReferences' = Append(validReferences, Same(reference))
    /\ checks' = Append(checks,
          [before |-> reference, marker |-> TRUE, threw |-> FALSE,
           outcome |-> VALID, bucket |-> "valid", rootOk |-> TRUE,
           refCalls |-> <<>>, refCmds |-> <<>>, fileCalls |-> <<>>,
           fileCmds |-> <<>>, fsChecks |-> <<>>, diskChecks |-> <<>>])
    /\ UNCHANGED <<allReferences, brokenReferences, versionIssues, existsCache>>

\* validation.ts 266-273: r is what validateReference returned
RecordResult(reference, rootOk, r) ==
    /\ validReferences' = Push(validReferences, "valid", r)
    /\ brokenReferences' = Push(brokenReferences, "broken", r)
    /\ versionIssues' = Push(versionIssues, "version", r)
    /\ allReferences' = [allReferences EXCEPT ![i] = r.reference]
    /\ existsCache' = r.cache
    /\ checks' = Append(checks,
          [before |-> reference, marker |-> FALSE, threw |-> r.threw,
           outcome |-> r.outcome, bucket |-> r.bucket,
           rootOk |-> (reference.targetRepo = NoString
                       /\ IsRootAnchored(reference.target)) => rootOk,
           refCalls |-> r.refCalls, refCmds |-> r.refCmds,
           fileCalls |-> r.fileCalls, fileCmds |-> r.fileCmds,
           fsChecks |-> r.fsChecks, diskChecks |-> r.diskChecks])

\* validation.ts 259-273: one reference of the validation loop
ValidateNext ==
    /\ pc = "validate"
    /\ i <= Len(allReferences)
    /\ IF IsMarker(allReferences[i].target)
       THEN RecordMarker(allReferences[i])
       ELSE \E fsThrows \in BOOLEAN, rootOk \in BOOLEAN :
              RecordResult(allReferences[i], rootOk,
                           validateReference(allReferences[i], repoConfigs,
                                             existsCache, fsThrows, rootOk))
    /\ i' = i + 1
    /\ UNCHANGED <<arg, out, shared>>
    /\ UNCHANGED <<input, files, disk, gitRefs, gitFiles, pc, initialRepoConfigs,
                   discoveredAliases, repoConfigs, isValid, findCalls>>

\* validation.ts 276-283
Return ==
    /\ pc = "validate"
    /\ i > Len(allReferences)
    /\ isValid' = ComputeIsValid(brokenReferences, versionIssues)
    /\ pc' = "done"
    /\ UNCHANGED <<arg, out, shared>>
    /\ UNCHANGED <<input, files, disk, gitRefs, gitFiles, i, initialRepoConfigs,
                   discoveredAliases, repoConfigs, allReferences, validReferences,
                   brokenReferences, versionIssues, existsCache, findCalls, checks>>

Next ==
    \/ Start
    \/ DiscoverRepo
    \/ EnhanceConfigs
    \/ CollectRepo
    \/ ValidateNext
    \/ Return

Spec == Init /\ [][Next]_vars

\* Bound on the number of times validatePipelines is invoked in the process.
MaxRuns == 2

\* validatePipelines is invoked again in the same process after a file was
\* created or deleted: out keeps the results returned so far, the locals of
\* the function are new, and the CachingFileSystem behind fileExists
\* (part_004 198, a module-level instance) is the one of the earlier run.
InvokeAgain ==
    \E changed \in DiskPaths :
        /\ pc = "done"
        /\ Len(out) < MaxRuns - 1
        /\ out' = Append(out, [isValid |-> isValid,
                               validReferences |-> validReferences,
                               brokenReferences |-> brokenReferences,
                               versionIssues |-> versionIssues])
        /\ disk' = IF changed \in disk THEN disk \ {changed}
                   ELSE disk \cup {changed}
        /\ pc' = "start"
        /\ i' = 1
        /\ initialRepoConfigs' = <<>>
        /\ discoveredAliases' = <<>>
        /\ repoConfigs' = <<>>
        /\ allReferences' = <<>>
        /\ validReferences' = <<>>
        /\ brokenReferences' = <<>>
        /\ versionIssues' = <<>>
        /\ isValid' = FALSE
        /\ findCalls' = <<>>
        /\ checks' = <<>>
        /\ UNCHANGED <<input, files, gitRefs, gitFiles, existsCache, arg, shared>>

NextAgain == Next \/ InvokeAgain

SpecAgain == Init /\ [][NextAgain]_vars

-----------------------------------------------------------------------------
(* The functions of the engine applied on their own: the argument is drawn  *)
(* from a bounded set and the function is applied once.  validatePipelines  *)
(* is not running (pc names the function under study).                      *)

Idle(fn) ==
    /\ input = [isPath |-> TRUE, path |-> NoString, configs |-> <<>>]
    /\ files = <<>>
    /\ disk = {}
    /\ gitRefs = {}
    /\ gitFiles = {}
    /\ pc = fn
    /\ i = 1
    /\ initialRepoConfigs = <<>>
    /\ discoveredAliases = <<>>
    /\ repoConfigs = <<>>
    /\ allReferences = <<>>
    /\ validReferences = <<>>
    /\ brokenReferences = <<>>
    /\ versionIssues = <<>>
    /\ isValid = FALSE
    /\ existsCache = <<>>
    /\ findCalls = <<>>
    /\ checks = <<>>
    /\ contentCache = <<>>
    /\ fileContent = <<>>
    /\ log = <<>>

Returned(fn, result) ==
    /\ pc = fn
    /\ out = <<>>
    /\ out' = <<result>>
    /\ UNCHANGED <<arg, main, shared>>

(* extractReferences *)

\* Bound on the number of repository declarations of a file.
MaxDecls == 2

AliasU == <<"u">>

\* Bound on the number of lines of a file given to extractReferences.
MaxText == 3

ExtractDeclRefs == {NoString, <<"refs/tags/", "v1">>, <<"refs/heads/">>}

ExtractDecls ==
    SeqsUpTo({[repository |-> a, name |-> <<"tpl">>, type |-> "git", ref |-> r] :
                 a \in {AliasT, AliasU}, r \in ExtractDeclRefs}, MaxDecls)

ExtractLineKinds ==
    {Blank,
     [target |-> <<"a.yml">>, repo |-> NoString, listItem |-> TRUE],
     [target |-> <<"b.yml">>, repo |-> AliasT, listItem |-> FALSE],
     [target |-> <<"b.yml">>, repo |-> AliasU, listItem |-> TRUE]}

ExtractLines == SeqsUpTo(ExtractLineKinds, MaxText)

SourceFile == <<"/r1", "p.yml">>

InitExtract ==
    /\ Idle("extractReferences")
    /\ arg \in {[decls |-> d, lines |-> l] : d \in ExtractDecls, l \in ExtractLines}
    /\ out = <<>>

ApplyExtract == Returned("extractReferences", extractReferences(SourceFile, arg))

SpecExtract == InitExtract /\ [][ApplyExtract]_vars

(* discoverRepositoryAliases *)

\* Bound on the number of configurations given to discoverRepositoryAliases.
MaxConfigs == 2

RepoPaths == <<Path1, Path2, <<"/r3">>>>

\* Configuration lists: names are unique within a list, the k-th repository
\* is checked out at the k-th path.
DiscoverConfigs ==
    {c \in SeqsUpTo({[name |-> n, path |-> p, aliases |-> al, ref |-> NoString,
                      skipValidation |-> FALSE] :
                        n \in {<<"tpl">>, <<"org", "tpl">>, Name1},
                        p \in {RepoPaths[k] : k \in 1..MaxConfigs},
                        al \in {{}, {AliasU}}}, MaxConfigs) :
        /\ Len(c) >= 1
        /\ \A k \in 1..Len(c) : c[k].path = RepoPaths[k]
        /\ \A k, m \in 1..Len(c) : c[k].name = c[m].name => k = m}

DiscoverDecls ==
    SeqsUpTo({[repository |-> a, name |-> n, type |-> "git", ref |-> NoString] :
                 a \in {AliasT, AliasU},
                 n \in {<<"tpl">>, <<"org", "tpl">>, <<"nope">>}}, MaxDecls)

\* One pipeline file, in the first repository.
DiscoverFiles ==
    {(Path1 :> <<[path |-> SourceFile, content |-> [decls |-> d, lines |-> <<>>]]>>) :
        d \in DiscoverDecls}

InitDiscover ==
    /\ Idle("discoverRepositoryAliases")
    /\ arg \in {[configs |-> c, files |-> f] : c \in DiscoverConfigs, f \in DiscoverFiles}
    /\ out = <<>>

ApplyDiscover ==
    Returned("discoverRepositoryAliases",
             discoverRepositoryAliases(arg.configs, arg.files))

\* The function applied to its own result, the files being the same.
ApplyDiscoverAgain ==
    /\ pc = "discoverRepositoryAliases"
    /\ Len(out) = 1
    /\ out' = Append(out, discoverRepositoryAliases(out[1], arg.files))
    /\ UNCHANGED <<arg, main, shared>>

NextDiscover == ApplyDiscover \/ ApplyDiscoverAgain

SpecDiscover == InitDiscover /\ [][NextDiscover]_vars

(* parseVersionReference *)

\* Bound on the number of tokens of a ref string.
MaxRefLen == 3

RefTokens == {"refs/tags/", "refs/heads/", "refs/pull/", "HEX40", "main", "v1"}

RefStrings == SeqsUpTo(RefTokens, MaxRefLen)

VersionKinds == {"tag", "branch", "commit"}

InitParse ==
    /\ out = <<>>
    /\ \/ Idle("parseVersionReference") /\ arg \in RefStrings
       \/ /\ Idle("refSpec")
          /\ arg \in [version : RefStrings, versionType : VersionKinds]

ApplyParse == Returned("parseVersionReference", parseVersionReference(arg))

\* The ref of a version and kind, parsed again.
ApplyRoundTrip ==
    Returned("refSpec", parseVersionReference(refSpec(arg.version, arg.versionType)))

NextParse == ApplyParse \/ ApplyRoundTrip

SpecParse == InitParse /\ [][NextParse]_vars

(* validateExternalReference *)

\* The refs the target repository may hold: a branch, a tag, a commit, and
\* a branch whose name has the shape of a tag.
ExternalGitUniverse ==
    GitUniverse \cup {[kind |-> "commit", version |-> <<"HEX40">>],
                      [kind |-> "branch", version |-> <<"v1">>]}

\* The version a reference carries itself, with its kind ("" when none).
ExternalOwnVersions ==
    {[version |-> NoString, versionType |-> ""],
     [version |-> <<"main">>, versionType |-> "branch"],
     [version |-> <<"v1">>, versionType |-> ""],
     [version |-> <<"HEX40">>, versionType |-> ""]}

ExternalConfigRefs ==
    {NoString, <<"main">>, <<"v1">>, <<"HEX40">>, <<"refs/heads/">>,
     <<"refs/tags/", "main">>}

ExternalReferences ==
    {[source |-> SourceFile, target |-> TemplateFile, lineNumber |-> 1,
      context |-> <<"template">>, targetRepo |-> AliasT,
      targetVersion |-> v.version, versionType |-> v.versionType] :
        v \in ExternalOwnVersions}

ExternalConfigs ==
    {[name |-> Name2, path |-> GitRepoPath, aliases |-> {AliasT}, ref |-> r,
      skipValidation |-> FALSE] : r \in ExternalConfigRefs}

InitExternal ==
    /\ input = [isPath |-> TRUE, path |-> NoString, configs |-> <<>>]
    /\ files = <<>>
    /\ disk \in SUBSET {joinPaths(GitRepoPath, TemplateFile)}
    /\ gitRefs \in SUBSET ExternalGitUniverse
    /\ gitFiles \in SUBSET gitRefs
    /\ pc = "validateExternalReference"
    /\ i = 1
    /\ initialRepoConfigs = <<>>
    /\ discoveredAliases = <<>>
    /\ repoConfigs = <<>>
    /\ allReferences = <<>>
    /\ validReferences = <<>>
    /\ brokenReferences = <<>>
    /\ versionIssues = <<>>
    /\ isValid = FALSE
    /\ existsCache = <<>>
    /\ findCalls = <<>>
    /\ checks = <<>>
    /\ contentCache = <<>>
    /\ fileContent = <<>>
    /\ log = <<>>
    /\ arg \in [reference : ExternalReferences, config : ExternalConfigs]
    /\ out = <<>>

ApplyExternal ==
    \E fsThrows \in BOOLEAN :
        Returned("validateExternalReference",
                 validateExternalReference(arg.reference, arg.reference.targetRepo,
                                           <<arg.config>>, existsCache, fsThrows))

SpecExternal == InitExternal /\ [][ApplyExternal]_vars

(* resolveTargetPath *)

ResolveTargets ==
    {TemplateFile, <<"/">> \o TemplateFile, <<"..">> \o TemplateFile,
     <<"repository:", "t">>}

\* The repoConfigs argument: not passed, an empty list, or a list with
\* the configuration known as AliasT.
ResolveConfigs ==
    {<<>>, << <<>> >>,
     << <<[name |-> Name2, path |-> GitRepoPath, aliases |-> {AliasT},
           ref |-> NoString, skipValidation |-> FALSE]>> >>}

ResolveArguments ==
    [sourcePath : {SourceFile, <<"/r1", "sub", "p.yml">>},
     targetPath : ResolveTargets,
     targetRepo : {NoString, AliasT, <<"u">>},
     repoConfigs : ResolveConfigs,
     rootOk : BOOLEAN]

InitResolve ==
    /\ Idle("resolveTargetPath")
    /\ arg \in ResolveArguments
    /\ out = <<>>

ApplyResolve ==
    Returned("resolveTargetPath",
             resolveTargetPathIn(arg.sourcePath, arg.targetPath, arg.targetRepo,
                                 arg.repoConfigs, arg.rootOk))

SpecResolve == InitResolve /\ [][ApplyResolve]_vars

(* CachingFileSystem *)

\* Number of calls remembered in arg, with their results in out.
MaxHistory == 2

CachePaths == {<<"/r1", "b.yml">>, <<"/r1", "c.yml">>}

CacheContents == {<<"one">>, <<"two">>}

\* The last MaxHistory entries of a history extended by one.
Remember(history, entry) ==
    IF Len(history) < MaxHistory THEN Append(history, entry)
    ELSE Append(Tail(history), entry)

Call(op, filePath, content) == [op |-> op, path |-> filePath, content |-> content]

\* What a call answered: threw, the content returned by readFile, the
\* answer of exists, and whether the underlying filesystem was called.
Answer(threw, content, exists, consulted) ==
    [threw |-> threw, content |-> content, exists |-> exists,
     consulted |-> consulted]

\* The variables no call of CachingFileSystem touches
outside == <<input, files, gitRefs, gitFiles, pc, i, initialRepoConfigs,
             discoveredAliases, repoConfigs, allReferences, validReferences,
             brokenReferences, versionIssues, isValid, findCalls, checks, log>>

\* Variant: a failed read is remembered as a missing file.
ReadFileMiss_M(filePath, fails) ==
    IF fails
    THEN /\ out' = Remember(out, Answer(TRUE, NoString, FALSE, TRUE))
         /\ existsCache' = (filePath :> FALSE) @@ existsCache
         /\ UNCHANGED contentCache
    ELSE /\ out' = Remember(out, Answer(FALSE, fileContent[filePath], FALSE, TRUE))
         /\ contentCache' = (filePath :> fileContent[filePath]) @@ contentCache
         /\ existsCache' = (filePath :> TRUE) @@ existsCache

\* part_004 134-138: RealFileSystem.readFile throws when it fails, before
\* either cache is set.
ReadFileMiss(filePath, fails) ==
    IF fails
    THEN /\ out' = Remember(out, Answer(TRUE, NoString, FALSE, TRUE))
         /\ UNCHANGED <<contentCache, existsCache>>
    ELSE /\ out' = Remember(out, Answer(FALSE, fileContent[filePath], FALSE, TRUE))
         /\ contentCache' = (filePath :> fileContent[filePath]) @@ contentCache
         /\ existsCache' = (filePath :> TRUE) @@ existsCache

\* CachingFileSystem.readFile; the underlying read fails for a missing file
\* and may fail for an existing one.
ReadFile ==
    \E filePath \in CachePaths :
        /\ pc = "CachingFileSystem"
        /\ arg' = Remember(arg, Call("readFile", filePath, NoString))
        /\ IF filePath \in DOMAIN contentCache
           THEN /\ out' = Remember(out, Answer(FALSE, contentCache[filePath],
                                               FALSE, FALSE))
                /\ UNCHANGED <<contentCache, existsCache>>
           ELSE \E fails \in {filePath \notin disk, TRUE} :
                    ReadFileMiss(filePath, fails)
        /\ UNCHANGED <<disk, fileContent, outside>>

\* CachingFileSystem.exists
Exists ==
    \E filePath \in CachePaths :
        /\ pc = "CachingFileSystem"
        /\ arg' = Remember(arg, Call("exists", filePath, NoString))
        /\ out' = Remember(out, Answer(FALSE, NoString,
                                       fileExists(existsCache, filePath, FALSE).result,
                                       filePath \notin DOMAIN existsCache))
        /\ existsCache' = fileExists(existsCache, filePath, FALSE).cache
        /\ UNCHANGED <<contentCache, disk, fileContent, outside>>

\* CachingFileSystem.writeFile; the underlying write may fail.
WriteFile ==
    \E filePath \in CachePaths, content \in CacheContents, fails \in BOOLEAN :
        /\ pc = "CachingFileSystem"
        /\ arg' = Remember(arg, Call("writeFile", filePath, content))
        /\ out' = Remember(out, Answer(fails, NoString, FALSE, TRUE))
        /\ IF fails
           THEN UNCHANGED <<disk, fileContent, contentCache, existsCache>>
           ELSE /\ disk' = disk \cup {filePath}
                /\ fileContent' = (filePath :> content) @@ fileContent
                /\ contentCache' = (filePath :> content) @@ contentCache
                /\ existsCache' = (filePath :> TRUE) @@ existsCache
        /\ UNCHANGED outside

\* Variant: only the content cache is emptied.
ClearedExists_M(cache) == cache

\* part_004 190-191: existsCache.clear()
ClearedExists(cache) == <<>>

\* CachingFileSystem.clearCache, clearFileSystemCache
ClearCache ==
    /\ pc = "CachingFileSystem"
    /\ arg' = Remember(arg, Call("clearCache", NoString, NoString))
    /\ out' = Remember(out, Answer(FALSE, NoString, FALSE, FALSE))
    /\ contentCache' = <<>>
    /\ existsCache' = ClearedExists(existsCache)
    /\ UNCHANGED <<disk, fileContent, outside>>

\* The files change without a call of CachingFileSystem: a file is
\* created, rewritten or deleted.
FileChanged ==
    \E filePath \in CachePaths :
        /\ pc = "CachingFileSystem"
        /\ \/ \E content \in CacheContents :
                 /\ disk' = disk \cup {filePath}
                 /\ fileContent' = (filePath :> content) @@ fileContent
           \/ /\ filePath \in disk
              /\ disk' = disk \ {filePath}
              /\ fileContent' = [q \in disk' |-> fileContent[q]]
        /\ UNCHANGED <<arg, out, contentCache, existsCache, outside>>

InitCache ==
    /\ Idle("CachingFileSystem")
    /\ arg = <<>>
    /\ out = <<>>

NextCache == ReadFile \/ Exists \/ WriteFile \/ ClearCache \/ FileChanged

SpecCache == InitCache /\ [][NextCache]_vars

(* watchRepositories *)

\* Bound on the number of change events the watcher is sent.
MaxEvents == 3

\* The file whose existence a validation run asks for.
WatchedTarget == <<"/r1", "b.yml">>

\* The variables the watcher leaves alone
unwatched == <<input, files, gitRefs, gitFiles, i, initialRepoConfigs,
               discoveredAliases, repoConfigs, allReferences, validReferences,
               brokenReferences, versionIssues, isValid, findCalls, checks,
               arg, out, fileContent>>

Changes == Cardinality({k \in DOMAIN log : log[k] = "change"})

\* cli.ts 636-654, runValidation: validatePipelines returns or throws; the
\* exception is caught and logged.  The run asks fileExists for the target
\* unless it throws before.
runValidation(cache, throws) ==
    [entry |-> IF throws THEN "threw" ELSE "validated",
     cache |-> IF throws THEN cache
               ELSE fileExists(cache, WatchedTarget, FALSE).cache]

\* cli.ts 573-611: the watcher is created and the initial validation runs.
Watch ==
    \E throws \in BOOLEAN :
        /\ pc = "watchRepositories"
        /\ pc' = "watching"
        /\ log' = <<runValidation(existsCache, throws).entry>>
        /\ existsCache' = runValidation(existsCache, throws).cache
        /\ UNCHANGED <<contentCache, disk, unwatched>>

\* Variant: the handler validates first and clears the cache afterwards.
OnChange_M ==
    \E throws \in BOOLEAN :
        /\ pc = "watching"
        /\ Changes < MaxEvents
        /\ log' = log \o <<"change", runValidation(existsCache, throws).entry,
                           "clear">>
        /\ contentCache' = <<>>
        /\ existsCache' = <<>>
        /\ UNCHANGED <<pc, disk, unwatched>>

\* cli.ts 614-631: the handler of the watcher's "change" event clears the
\* cache of the filesystem and runs the validation.
OnChange ==
    \E throws \in BOOLEAN :
        /\ pc = "watching"
        /\ Changes < MaxEvents
        /\ log' = log \o <<"change", "clear", runValidation(<<>>, throws).entry>>
        /\ contentCache' = <<>>
        /\ existsCache' = runValidation(<<>>, throws).cache
        /\ UNCHANGED <<pc, disk, unwatched>>

\* cli.ts 657-662: the function watchRepositories returned is called.
StopWatching ==
    /\ pc = "watching"
    /\ pc' = "stopped"
    /\ log' = Append(log, "stop")
    /\ UNCHANGED <<contentCache, existsCache, disk, unwatched>>

\* The target is created or deleted while the watcher waits.
TargetChanged ==
    /\ pc = "watching"
    /\ disk' = IF WatchedTarget \in disk THEN disk \ {WatchedTarget}
               ELSE disk \cup {WatchedTarget}
    /\ UNCHANGED <<pc, log, contentCache, existsCache, unwatched>>

InitWatch ==
    /\ Idle("watchRepositories")
    /\ arg = <<>>
    /\ out = <<>>

NextWatch == Watch \/ OnChange \/ StopWatching \/ TargetChanged

SpecWatch == InitWatch /\ [][NextWatch]_vars

(* validateRepoVersion, validateFileAtVersion *)

\* The refs a repository may hold: a local branch, the remote-tracking
\* branch of the same name, a tag and a commit.
RemoteGitUniverse ==
    GitUniverse \cup {[kind |-> "remote", version |-> <<"main">>],
                      [kind |-> "commit", version |-> <<"HEX40">>]}

\* Arguments of the two functions: a repository and a directory that is
\* none, a file path with and without the leading "/", a version or none,
\* a kind or none.
GitArguments ==
    [repoPath : {GitRepoPath, <<"/nowhere">>},
     filePath : {TemplateFile, <<"/">> \o TemplateFile, <<"c.yml">>},
     version : {NoString, <<"main">>, <<"v1">>, <<"HEX40">>},
     type : VersionKinds \cup {""}]

InitGit ==
    /\ input = [isPath |-> TRUE, path |-> NoString, configs |-> <<>>]
    /\ files = <<>>
    /\ disk \in SUBSET {joinPaths(GitRepoPath, TemplateFile)}
    /\ gitRefs \in SUBSET RemoteGitUniverse
    /\ gitFiles \in SUBSET gitRefs
    /\ pc \in {"validateRepoVersion", "validateFileAtVersion"}
    /\ i = 1
    /\ initialRepoConfigs = <<>>
    /\ discoveredAliases = <<>>
    /\ repoConfigs = <<>>
    /\ allReferences = <<>>
    /\ validReferences = <<>>
    /\ brokenReferences = <<>>
    /\ versionIssues = <<>>
    /\ isValid = FALSE
    /\ existsCache = <<>>
    /\ findCalls = <<>>
    /\ checks = <<>>
    /\ contentCache = <<>>
    /\ fileContent = <<>>
    /\ log = <<>>
    /\ arg \in GitArguments
    /\ out = <<>>

ApplyRepoVersion ==
    Returned("validateRepoVersion",
             validateRepoVersion(arg.repoPath, arg.version, arg.type))

ApplyFileAtVersion ==
    Returned("validateFileAtVersion",
             validateFileAtVersion(arg.repoPath, arg.filePath, arg.version,
                                   arg.type))

NextGit == ApplyRepoVersion \/ ApplyFileAtVersion

SpecGit == InitGit /\ [][NextGit]_vars

-----------------------------------------------------------------------------
(* Properties of validatePipelines *)

\* The references the validation loop has handled so far.
Processed == 1..Len(checks)

\* A bucket entry stems from reference k: a pushed entry keeps the source,
\* line number and context of the reference it was made from.
StemsFrom(e, k) ==
    /\ e.rec.source = checks[k].before.source
    /\ e.rec.lineNumber = checks[k].before.lineNumber
    /\ e.rec.context = checks[k].before.context

EntriesOf(bucket, k) == {j \in 1..Len(bucket) : StemsFrom(bucket[j], k)}

CountIn(bucket, k) == Cardinality(EntriesOf(bucket, k))

NoQueries(k) ==
    /\ checks[k].refCalls = <<>> /\ checks[k].refCmds = <<>>
    /\ checks[k].fileCalls = <<>> /\ checks[k].fileCmds = <<>>
    /\ checks[k].fsChecks = <<>> /\ checks[k].diskChecks = <<>>

BucketSum == Len(validReferences) + Len(brokenReferences) + Len(versionIssues)

\* C1: in every returned ValidationResult, isValid holds exactly when
\* brokenReferences and versionIssues are both empty.
InvC1 ==
    pc = "done" =>
        (isValid <=> (brokenReferences = <<>> /\ versionIssues = <<>>))

\* A result with valid references and a version issue only: not valid.
WitnessC1 ==
    /\ pc = "done"
    /\ ~isValid
    /\ brokenReferences = <<>>
    /\ versionIssues # <<>>
    /\ validReferences # <<>>

\* C2: every handled reference sits in exactly one bucket, the bucket of its
\* outcome; the bucket sizes sum to the number of references handled so far
\* and, on return, to the number of collected references.
InvC2 ==
    pc \in {"validate", "done"} =>
        /\ Len(checks) = i - 1
        /\ BucketSum = Len(checks)
        /\ pc = "done" => BucketSum = Len(allReferences)
        /\ \A k \in Processed :
              /\ CountIn(validReferences, k) + CountIn(brokenReferences, k)
                    + CountIn(versionIssues, k) = 1
              /\ checks[k].outcome = VALID => CountIn(validReferences, k) = 1
              /\ checks[k].outcome \in {BROKEN_PATH, MISSING_REPO}
                    => CountIn(brokenReferences, k) = 1
              /\ checks[k].outcome = INVALID_VERSION => CountIn(versionIssues, k) = 1

\* A finished run that filled all three buckets.
WitnessC2 ==
    /\ pc = "done"
    /\ validReferences # <<>>
    /\ brokenReferences # <<>>
    /\ versionIssues # <<>>

\* C3: a reference whose validation raised is BROKEN_PATH, has exactly one
\* brokenReferences entry (same source, line and context, target embedding
\* the error message) and none elsewhere, and the loop goes on: on return
\* every collected reference has been handled.
InvC3 ==
    /\ \A k \in Processed :
          checks[k].threw =>
              /\ checks[k].outcome = BROKEN_PATH
              /\ CountIn(brokenReferences, k) = 1
              /\ CountIn(validReferences, k) = 0
              /\ CountIn(versionIssues, k) = 0
              /\ \A j \in EntriesOf(brokenReferences, k) :
                    brokenReferences[j].rec.target =
                        <<"Error validating: ">> \o checks[k].before.target
                            \o <<" - ">> \o ErrorMessage
              /\ pc \in {"validate", "done"}
    /\ pc = "done" => Len(checks) = Len(allReferences)

\* A local and an external reference raised, and a later reference was
\* still validated.
WitnessC3 ==
    /\ pc = "done"
    /\ \E k \in Processed :
          /\ checks[k].threw
          /\ checks[k].before.targetRepo # NoString
          /\ \E m \in Processed : m > k /\ ~checks[m].threw /\ ~checks[m].marker

\* C4: no exception leaves validatePipelines.
ClaimC4 == pc # "thrown"

\* The configuration an externally validated reference resolves to.
TargetConfig(k) ==
    repoConfigs[findRepoConfig(checks[k].before.targetRepo, repoConfigs)]

\* Reference k named a target repository that was found and is not skipped.
ValidatedExternally(k) ==
    /\ ~checks[k].marker
    /\ checks[k].before.targetRepo # NoString
    /\ findRepoConfig(checks[k].before.targetRepo, repoConfigs) # 0
    /\ ~TargetConfig(k).skipValidation

\* A namespaced ref and its short form name the same version.
ShortForm(v) ==
    IF Len(v) > 0 /\ Head(v) \in {"refs/tags/", "refs/heads/"} THEN Tail(v) ELSE v

\* The version that applies to reference k by precedence: its own version,
\* else the pinned ref of the target configuration, else none.
AppliedVersion(k) ==
    IF checks[k].before.targetVersion # NoString
    THEN checks[k].before.targetVersion
    ELSE TargetConfig(k).ref

Versions(cmds) == {cmds[j].version : j \in 1..Len(cmds)}

\* C5: for an externally validated reference the ref-existence query and the
\* file-at-ref query both use the version that applies by precedence (own
\* version, else pinned ref); with no version there is no VCS query at all;
\* a pinned ref is not used when the reference has its own version.
ClaimC5 ==
    \A k \in Processed :
        ValidatedExternally(k) =>
            LET applied == AppliedVersion(k)
                own == checks[k].before.targetVersion
                pinned == TargetConfig(k).ref
            IN  /\ applied = NoString =>
                      checks[k].refCmds = <<>> /\ checks[k].fileCmds = <<>>
                /\ applied # NoString =>
                      /\ Versions(checks[k].refCmds) = {ShortForm(applied)}
                      /\ Versions(checks[k].fileCmds) \subseteq {ShortForm(applied)}
                      /\ checks[k].outcome = VALID => checks[k].fileCmds # <<>>
                /\ (own # NoString /\ ShortForm(pinned) # ShortForm(own)) =>
                      /\ ShortForm(pinned) \notin Versions(checks[k].refCmds)
                      /\ ShortForm(pinned) \notin Versions(checks[k].fileCmds)

\* C6: when the configuration pins a ref and the pipeline declaration gives a
\* version too, the reference is validated against the configuration's ref.
ClaimC6 ==
    \A k \in Processed :
        (/\ ValidatedExternally(k)
         /\ checks[k].before.targetVersion # NoString
         /\ TargetConfig(k).ref # NoString) =>
            /\ Versions(checks[k].refCmds) \subseteq {ShortForm(TargetConfig(k).ref)}
            /\ Versions(checks[k].fileCmds) \subseteq {ShortForm(TargetConfig(k).ref)}

\* C7: a reference whose target repository resolves to a configuration
\* flagged skipValidation is Valid, sits in validReferences, and no
\* filesystem or VCS query is issued for it.
InvC7 ==
    \A k \in Processed :
        (/\ ~checks[k].marker
         /\ checks[k].before.targetRepo # NoString
         /\ findRepoConfig(checks[k].before.targetRepo, repoConfigs) # 0
         /\ TargetConfig(k).skipValidation) =>
            /\ checks[k].outcome = VALID
            /\ ~checks[k].threw
            /\ CountIn(validReferences, k) = 1
            /\ CountIn(brokenReferences, k) = 0
            /\ CountIn(versionIssues, k) = 0
            /\ NoQueries(k)

\* A versioned reference into a skipped repository, reached through an alias,
\* accepted although neither the file nor the version exists anywhere.
WitnessC7 ==
    /\ disk = {}
    /\ gitRefs = {}
    /\ \E k \in Processed :
          /\ ~checks[k].marker
          /\ checks[k].before.targetRepo = AliasT
          /\ checks[k].before.targetVersion # NoString
          /\ findRepoConfig(AliasT, repoConfigs) # 0
          /\ TargetConfig(k).skipValidation
          /\ CountIn(validReferences, k) = 1

\* C8: findPipelineFiles is never called for a repository flagged
\* skipValidation, and once per phase for every other repository handled.
ClaimC8 ==
    /\ \A j \in 1..Len(findCalls) :
          \A k \in 1..Len(initialRepoConfigs) :
              initialRepoConfigs[k].path = findCalls[j].path
                  => ~initialRepoConfigs[k].skipValidation
    /\ pc \in {"validate", "done"} =>
          \A k \in 1..Len(initialRepoConfigs) :
              ~initialRepoConfigs[k].skipValidation =>
                  \A ph \in {"discover", "collect"} :
                      Cardinality({j \in 1..Len(findCalls) :
                                      findCalls[j] = [phase |-> ph,
                                                      path |-> initialRepoConfigs[k].path]}) = 1

\* C9: a declaration marker is placed in validReferences without any
\* repository lookup, filesystem check or VCS query.
InvC9 ==
    \A k \in Processed :
        (Len(checks[k].before.target) > 0
         /\ Head(checks[k].before.target) = "repository:") =>
            /\ checks[k].outcome = VALID
            /\ CountIn(validReferences, k) = 1
            /\ CountIn(brokenReferences, k) = 0
            /\ CountIn(versionIssues, k) = 0
            /\ NoQueries(k)

\* A marker whose alias matches no configuration and whose declared version
\* does not exist, accepted all the same.
WitnessC9 ==
    \E k \in Processed :
        /\ Head(checks[k].before.target) = "repository:"
        /\ findRepoConfig(checks[k].before.targetRepo, repoConfigs) = 0
        /\ checks[k].before.targetVersion # NoString
        /\ gitRefs = {}
        /\ CountIn(validReferences, k) = 1

\* The path a local reference stands for: its target joined to the directory
\* of its source, or, root-anchored, to the repository root (to the working
\* directory when the root lookup failed).
LocalPath(k) ==
    LET t == checks[k].before.target
        src == checks[k].before.source
    IN  IF Head(t) = "/"
        THEN (IF checks[k].rootOk THEN <<src[1]>> ELSE <<"/cwd">>) \o Tail(t)
        ELSE SubSeq(src, 1, Len(src) - 1) \o t

\* C10: a reference with no target repository (not a declaration marker,
\* existence check answered) is Valid exactly when a file exists at its
\* resolved path; otherwise it is BROKEN_PATH with one brokenReferences entry
\* whose target is the resolved path, and the result is not valid.
InvC10 ==
    \A k \in Processed :
        (/\ checks[k].before.targetRepo = NoString
         /\ Head(checks[k].before.target) # "repository:"
         /\ ~checks[k].threw) =>
            /\ checks[k].outcome = VALID <=> LocalPath(k) \in disk
            /\ LocalPath(k) \in disk =>
                  /\ CountIn(validReferences, k) = 1
                  /\ CountIn(brokenReferences, k) = 0
            /\ LocalPath(k) \notin disk =>
                  /\ checks[k].outcome = BROKEN_PATH
                  /\ CountIn(validReferences, k) = 0
                  /\ CountIn(brokenReferences, k) = 1
                  /\ \A j \in EntriesOf(brokenReferences, k) :
                        brokenReferences[j].rec.target = LocalPath(k)
                  /\ pc = "done" => ~isValid

\* A relative reference found on disk next to a root-anchored one that is
\* missing beneath the working directory; the returned result is not valid.
WitnessC10 ==
    /\ pc = "done"
    /\ ~isValid
    /\ \E k \in Processed :
          /\ checks[k].before.targetRepo = NoString
          /\ ~checks[k].threw
          /\ LocalPath(k) \in disk
          /\ CountIn(validReferences, k) = 1
    /\ \E k \in Processed :
          /\ checks[k].before.targetRepo = NoString
          /\ ~checks[k].threw
          /\ Head(checks[k].before.target) = "/"
          /\ ~checks[k].rootOk
          /\ \E j \in EntriesOf(brokenReferences, k) :
                brokenReferences[j].rec.target = <<"/cwd", "a.yml">>

\* Reference k went to validateReference and names a target repository that
\* no configuration has as its name or among its aliases.
TargetsUnknownRepo(k) ==
    /\ ~checks[k].marker
    /\ checks[k].before.targetRepo # NoString
    /\ findRepoConfig(checks[k].before.targetRepo, repoConfigs) = 0

\* C11: a reference whose target repository matches no configuration by name
\* or alias is MISSING_REPO: one brokenReferences entry whose target names the
\* unknown repository, nothing in validReferences or versionIssues, and no
\* ref-existence or file-existence query.
InvC11 ==
    \A k \in Processed :
        TargetsUnknownRepo(k) =>
            /\ checks[k].outcome = MISSING_REPO
            /\ ~checks[k].threw
            /\ CountIn(brokenReferences, k) = 1
            /\ \A j \in EntriesOf(brokenReferences, k) :
                  brokenReferences[j].rec.target =
                      <<"Unknown repository: ">> \o checks[k].before.targetRepo
            /\ CountIn(validReferences, k) = 0
            /\ CountIn(versionIssues, k) = 0
            /\ NoQueries(k)

\* The alias is declared in the pipeline with a canonical name that alias
\* discovery could not resolve; discovery went through and the reference
\* using the alias is reported as an unknown repository.
WitnessC11 ==
    /\ pc = "done"
    /\ ~isValid
    /\ \E f \in 1..Len(files[Path1]) :
          \E d \in 1..Len(files[Path1][f].content.decls) :
              /\ files[Path1][f].content.decls[d].repository = AliasT
              /\ repoNameMap(initialRepoConfigs,
                             files[Path1][f].content.decls[d].name) = 0
    /\ \E k \in Processed :
          /\ TargetsUnknownRepo(k)
          /\ checks[k].before.targetRepo = AliasT
          /\ CountIn(brokenReferences, k) = 1

\* The ref-existence query made for reference k came back empty or failed.
RefQueryNegative(k) ==
    /\ checks[k].refCmds # <<>>
    /\ \A j \in 1..Len(checks[k].refCmds) :
          ~(/\ TargetConfig(k).path = GitRepoPath
            /\ RefListed(checks[k].refCmds[j].version, checks[k].refCmds[j].kind))

\* C12: when the ref-existence query for the version of an external reference
\* is negative or fails, the reference is INVALID_VERSION: one versionIssues
\* entry whose target names the version and the repository, nothing in
\* validReferences or brokenReferences, and no file check of any kind.
InvC12 ==
    \A k \in Processed :
        (ValidatedExternally(k) /\ RefQueryNegative(k)) =>
            /\ checks[k].outcome = INVALID_VERSION
            /\ CountIn(versionIssues, k) = 1
            /\ \A j \in EntriesOf(versionIssues, k) :
                  versionIssues[j].rec.target =
                      <<"Invalid version ">> \o checks[k].refCmds[1].version
                          \o <<" in repo ">> \o checks[k].before.targetRepo
            /\ CountIn(validReferences, k) = 0
            /\ CountIn(brokenReferences, k) = 0
            /\ checks[k].fileCalls = <<>> /\ checks[k].fileCmds = <<>>
            /\ checks[k].fsChecks = <<>> /\ checks[k].diskChecks = <<>>

\* The declaration pins tag v1, the repository has no such tag, and the
\* template file is present in the working copy all the same.
WitnessC12 ==
    /\ pc = "done"
    /\ ~isValid
    /\ <<"/r2", "b.yml">> \in disk
    /\ [kind |-> "tag", version |-> <<"v1">>] \notin gitRefs
    /\ \E k \in Processed :
          /\ ValidatedExternally(k)
          /\ checks[k].before.targetVersion = <<"v1">>
          /\ checks[k].before.versionType = "tag"
          /\ RefQueryNegative(k)
          /\ \E j \in EntriesOf(versionIssues, k) :
                versionIssues[j].rec.target =
                    <<"Invalid version ", "v1", " in repo ", "t">>

\* Declarations d of the file that are the only one recorded under their
\* alias and carry a ref whose version is not empty.
VersionedDecls(content) ==
    {d \in 1..Len(content.decls) :
        /\ DeclAlias(content.decls[d]) # NoString
        /\ \A e \in 1..Len(content.decls) :
              DeclAlias(content.decls[e]) = DeclAlias(content.decls[d]) => e = d
        /\ content.decls[d].ref # NoString
        /\ parseVersionReference(content.decls[d].ref).version # NoString}

CallerConfigs ==
    IF input.isPath
    THEN <<[name |-> <<"repo">>, path |-> input.path, aliases |-> {},
            ref |-> NoString, skipValidation |-> FALSE]>>
    ELSE input.configs

\* discoverRepositoryAliases has been entered (and possibly left).
DiscoveryEntered == pc \in {"discover", "enhance", "collect", "validate", "done", "thrown"}

\* C14: during and after discoverRepositoryAliases the caller's list and each
\* of its configurations, aliases included, are as they were handed in; the
\* enriched configurations are another list.
InvC14 ==
    DiscoveryEntered =>
        /\ initialRepoConfigs = CallerConfigs
        /\ ~input.isPath => input.configs = initialRepoConfigs

\* Discovery returned configurations enriched with an alias the caller's
\* configuration does not have.
WitnessC14 ==
    /\ pc \in {"collect", "validate", "done"}
    /\ \E k \in 1..Len(repoConfigs) :
          /\ AliasT \in repoConfigs[k].aliases
          /\ AliasT \notin initialRepoConfigs[k].aliases
          /\ initialRepoConfigs[k] = CallerConfigs[k]

\* The declarations of the scanned files that are the only one under their
\* alias in their file: <<path, file index, declaration index>>.
DeclsScanned ==
    {<<p, f, d>> \in (DOMAIN arg.files) \X (1..1) \X (1..(MaxDecls + 1)) :
        /\ f <= Len(arg.files[p])
        /\ d <= Len(arg.files[p][f].content.decls)
        /\ \E k \in 1..Len(arg.configs) : arg.configs[k].path = p
        /\ DeclAlias(arg.files[p][f].content.decls[d]) # NoString
        /\ \A e \in 1..Len(arg.files[p][f].content.decls) :
              DeclAlias(arg.files[p][f].content.decls[e])
                  = DeclAlias(arg.files[p][f].content.decls[d]) => e = d}

InvC16 ==
    (pc = "discoverRepositoryAliases" /\ Len(out) = 2) =>
        /\ Len(out[2]) = Len(out[1])
        /\ \A k \in 1..Len(out[1]) :
              /\ out[2][k].name = out[1][k].name
              /\ out[2][k].aliases = out[1][k].aliases

\* Both applications done, the first having added an alias to a
\* configuration that already had another one.
WitnessC16 ==
    /\ pc = "discoverRepositoryAliases"
    /\ Len(out) = 2
    /\ \E k \in 1..Len(arg.configs) :
          /\ arg.configs[k].aliases = {AliasU}
          /\ out[1][k].aliases = {AliasT, AliasU}
          /\ out[2][k].aliases = {AliasT, AliasU}

\* C17: parseVersionReference answers for every string, by priority: tags
\* prefix -> tag and the remainder; else branches prefix -> branch and the
\* remainder; else exactly 40 hex characters -> commit, unchanged; else
\* branch, unchanged.
InvC17 ==
    (pc = "parseVersionReference" /\ out # <<>>) =>
        /\ Len(out) = 1
        /\ out[1].versionType \in VersionKinds
        /\ IF Len(arg) > 0 /\ arg[1] = "refs/tags/"
           THEN out[1] = [version |-> SubSeq(arg, 2, Len(arg)), versionType |-> "tag"]
           ELSE IF Len(arg) > 0 /\ arg[1] = "refs/heads/"
           THEN out[1] = [version |-> SubSeq(arg, 2, Len(arg)),
                          versionType |-> "branch"]
           ELSE IF arg = <<"HEX40">>
           THEN out[1] = [version |-> arg, versionType |-> "commit"]
           ELSE out[1] = [version |-> arg, versionType |-> "branch"]

\* Forty hex characters followed by more text: a branch, not a commit.
WitnessC17 ==
    /\ pc = "parseVersionReference"
    /\ arg = <<"HEX40", "main">>
    /\ out = <<[version |-> <<"HEX40", "main">>, versionType |-> "branch"]>>

\* C18 as stated: for every version and kind, the ref formed from them
\* parses back to the same version and kind.
ClaimC18 ==
    (pc = "refSpec" /\ out # <<>>) => out[1] = arg

\* C18 amended: the same, for a commit only when its version is a string of
\* exactly 40 hex characters.
InvC18 ==
    (/\ pc = "refSpec"
     /\ out # <<>>
     /\ arg.versionType = "commit" => arg.version = <<"HEX40">>) =>
        out[1] = arg

\* A tag whose name looks like a branch ref, formed and parsed back.
WitnessC18 ==
    /\ pc = "refSpec"
    /\ arg = [version |-> <<"refs/heads/", "v1">>, versionType |-> "tag"]
    /\ out = <<arg>>

\* C19: a declaration whose name is the exact name of a configuration
\* resolves to that configuration: the declared alias is in the alias set of
\* that configuration in the result, whatever the order of the list.
ClaimC19 ==
    (pc = "discoverRepositoryAliases" /\ out # <<>>) =>
        \A x \in DeclsScanned :
            \A k \in 1..Len(arg.configs) :
                arg.configs[k].name = arg.files[x[1]][x[2]].content.decls[x[3]].name
                    => DeclAlias(arg.files[x[1]][x[2]].content.decls[x[3]])
                          \in out[1][k].aliases

\* Positions in the extracted list of the references of line n with the
\* target written on that line (declaration markers have line number 0).
RefsOfLine(n) ==
    {k \in 1..Len(out[1]) :
        /\ out[1][k].source = SourceFile
        /\ out[1][k].lineNumber = n
        /\ out[1][k].target = arg.lines[n].target}

\* C20: the extracted list has at most one non-declaration reference per
\* (source, lineNumber, target); a line matched by local and by external
\* patterns yields one reference, the external one, with targetRepo set.
InvC20 ==
    (pc = "extractReferences" /\ out # <<>>) =>
        /\ \A j, k \in 1..Len(out[1]) :
              (/\ out[1][j].lineNumber # 0
               /\ out[1][j].source = out[1][k].source
               /\ out[1][j].lineNumber = out[1][k].lineNumber
               /\ out[1][j].target = out[1][k].target) => j = k
        /\ \A n \in 1..Len(arg.lines) :
              arg.lines[n].target # NoString =>
                  /\ Cardinality(RefsOfLine(n)) = 1
                  /\ \A k \in RefsOfLine(n) :
                        out[1][k].targetRepo = arg.lines[n].repo

\* A list item `- template: b.yml@u`, which both local patterns and both
\* external patterns match, extracted as one reference into u.
WitnessC20 ==
    /\ pc = "extractReferences"
    /\ out # <<>>
    /\ \E n \in 1..Len(arg.lines) :
          /\ arg.lines[n].listItem
          /\ arg.lines[n].repo = AliasU
          /\ Len(extractReferencesFromPatterns(SourceFile, arg, FALSE)) > Len(arg.lines)
          /\ Cardinality(RefsOfLine(n)) = 1
          /\ \A k \in RefsOfLine(n) : out[1][k].targetRepo = AliasU


-----------------------------------------------------------------------------
(* Properties of validateExternalReference applied on its own *)

\* The version that applies to the call: the reference's own, else the
\* configured one.
AppliedRaw ==
    IF arg.reference.targetVersion # NoString
    THEN [version |-> arg.reference.targetVersion,
          versionType |-> arg.reference.versionType]
    ELSE [version |-> arg.config.ref, versionType |-> ""]

\* The applying version carries no kind: no versionType and no refs/ prefix.
NoExplicitKind ==
    /\ AppliedRaw.version # NoString
    /\ AppliedRaw.versionType = ""
    /\ ~StartsWithRefs(AppliedRaw.version)

\* The kind the shape of a version stands for.
ShapeKind(version) ==
    IF version = <<"HEX40">> THEN "commit"
    ELSE IF Head(version) \in {"v1", "v2"} THEN "tag"
    ELSE "branch"

\* C21: when the applying version has no explicit kind, the ref-existence
\* check and the file-at-ref check are both made with the kind inferred from
\* the shape of the version (40 hex: commit, v+digit: tag, else branch), the
\* same kind for both.
InvC21 ==
    (pc = "validateExternalReference" /\ out # <<>> /\ NoExplicitKind)
        => /\ out[1].refCalls
                = <<[version |-> AppliedRaw.version,
                     kind |-> ShapeKind(AppliedRaw.version)]>>
           /\ \A k \in DOMAIN out[1].fileCalls :
                  out[1].fileCalls[k]
                      = [version |-> AppliedRaw.version,
                         kind |-> ShapeKind(AppliedRaw.version)]

WitnessC21 ==
    /\ pc = "validateExternalReference" /\ out # <<>> /\ NoExplicitKind
    /\ AppliedRaw.version = <<"v1">>
    /\ Len(out[1].refCalls) = 1
    /\ Len(out[1].fileCalls) = 1
    /\ out[1].fileCalls[1].kind = "tag"


\* A version applies and the ref query found it in the target repository.
VersionExists ==
    /\ pc = "validateExternalReference" /\ out # <<>>
    /\ ~out[1].threw
    /\ out[1].refCmds # <<>>
    /\ out[1].outcome # INVALID_VERSION

\* The object-existence query for the target file at the version that was
\* found succeeds.
FileQuerySucceeds ==
    validateFileAtVersion(arg.config.path, arg.reference.target,
                          out[1].refCalls[1].version,
                          out[1].refCalls[1].kind).result

\* C22: for an external reference whose applying version exists in the
\* target repository the outcome is Valid exactly when the object-existence
\* query for the file at that version succeeds, whether or not the file is in
\* the working copy; a failing query yields BrokenPath with one
\* brokenReferences entry naming the file, the repository and the version.
InvC22 ==
    VersionExists
        => /\ out[1].fileCalls = out[1].refCalls
           /\ out[1].fileCmds # <<>>
           /\ out[1].diskChecks = <<>>
           /\ out[1].outcome = VALID <=> FileQuerySucceeds
           /\ out[1].outcome = VALID
                => out[1].bucket = "valid" /\ ~out[1].entry.copy
           /\ ~FileQuerySucceeds
                => /\ out[1].outcome = BROKEN_PATH
                   /\ out[1].bucket = "broken"
                   /\ out[1].entry.rec.target
                        = <<"Template not found: ">> \o arg.reference.target
                            \o <<" in repo ">> \o arg.reference.targetRepo
                            \o <<" at version ">> \o out[1].refCalls[1].version

WitnessC22 ==
    /\ VersionExists
    /\ joinPaths(arg.config.path, arg.reference.target) \in disk
    /\ ~FileQuerySucceeds
    /\ out[1].outcome = BROKEN_PATH

-----------------------------------------------------------------------------
(* Properties of validateRepoVersion and validateFileAtVersion *)

\* C23: validateRepoVersion never throws: a failing command yields false,
\* an empty output false, a non-empty output true, and without a version it
\* returns true and runs no command.
InvC23 ==
    (pc = "validateRepoVersion" /\ out # <<>>)
        => /\ ~out[1].threw
           /\ arg.version = NoString
                => out[1].result /\ out[1].commands = <<>>
           /\ arg.version # NoString
                => /\ Len(out[1].commands) = 1
                   /\ RefQuery(arg.repoPath, arg.version, arg.type) = "failed"
                        => ~out[1].result
                   /\ RefQuery(arg.repoPath, arg.version, arg.type) = "empty"
                        => ~out[1].result
                   /\ RefQuery(arg.repoPath, arg.version, arg.type) = "output"
                        => out[1].result

WitnessC23 ==
    /\ pc = "validateRepoVersion" /\ out # <<>>
    /\ arg.version # NoString
    /\ RefQuery(arg.repoPath, arg.version, arg.type) = "failed"
    /\ ~out[1].result /\ ~out[1].threw

\* The file is held at the local branch / at the remote-tracking branch.
LocalHolds == ObjectAt(arg.repoPath, arg.version, "branch", StripRoot(arg.filePath))
RemoteHolds == ObjectAt(arg.repoPath, arg.version, "remote", StripRoot(arg.filePath))

\* C24: for a branch, validateFileAtVersion queries the local namespace
\* first and the remote-tracking namespace only after the local query
\* failed; it answers true as soon as one query succeeds, false only when
\* both failed, and never throws.
InvC24 ==
    (pc = "validateFileAtVersion" /\ out # <<>> /\ arg.version # NoString
        /\ arg.type = "branch")
        => /\ ~out[1].threw
           /\ Len(out[1].commands) \in {1, 2}
           /\ out[1].commands[1] = [version |-> arg.version, kind |-> "branch"]
           /\ Len(out[1].commands) = 2
                => /\ ~LocalHolds
                   /\ out[1].commands[2]
                        = [version |-> arg.version, kind |-> "remote"]
           /\ LocalHolds => out[1].result /\ Len(out[1].commands) = 1
           /\ (~LocalHolds /\ RemoteHolds) => out[1].result
           /\ ~out[1].result
                => ~LocalHolds /\ ~RemoteHolds /\ Len(out[1].commands) = 2

WitnessC24 ==
    /\ pc = "validateFileAtVersion" /\ out # <<>>
    /\ arg.version # NoString /\ arg.type = "branch"
    /\ ~LocalHolds /\ RemoteHolds
    /\ out[1].result /\ Len(out[1].commands) = 2


-----------------------------------------------------------------------------
(* Properties of resolveTargetPath *)

\* The configurations passed to the call, none when the list is omitted.
ConfigsPassed == IF arg.repoConfigs = <<>> THEN <<>> ELSE arg.repoConfigs[1]

\* The call names a target repository that matches no configuration.
UnknownTargetRepo ==
    /\ arg.targetRepo # NoString
    /\ findRepoConfig(arg.targetRepo, ConfigsPassed) = 0

\* C25: resolveTargetPath always returns a string: a marker target
\* unchanged; for a target repository alias that matches no configuration
\* the sentinel made of the alias and the raw target; for a root-anchored
\* target without target repository whose root lookup fails, the target
\* joined beneath the current working directory.
ClaimC25 ==
    (pc = "resolveTargetPath" /\ out # <<>>)
        => /\ IsMarker(arg.targetPath) => out[1] = arg.targetPath
           /\ (~IsMarker(arg.targetPath) /\ UnknownTargetRepo)
                => out[1] = arg.targetRepo \o <<":">> \o arg.targetPath
           /\ (IsRootAnchored(arg.targetPath) /\ arg.targetRepo = NoString
                  /\ ~arg.rootOk)
                => out[1] = joinPaths(Cwd, arg.targetPath)


-----------------------------------------------------------------------------
(* Properties of CachingFileSystem *)

\* The step is the call op(filePath), not a writeFile.
Calls(op, filePath) == arg' = Remember(arg, Call(op, filePath, NoString))

\* The last call made was clearCache.
JustCleared == arg # <<>> /\ Last(arg).op = "clearCache"

\* What RealFileSystem answers a read of filePath: its content, or a failure.
ReadsCurrent(answer, filePath) ==
    /\ answer.consulted
    /\ filePath \notin disk => answer.threw
    /\ ~answer.threw => answer.content = fileContent[filePath]

FreshAfterClear ==
    \A filePath \in CachePaths :
        JustCleared
            => /\ Calls("exists", filePath)
                    => /\ Last(out').consulted
                       /\ Last(out').exists = (filePath \in disk)
               /\ Calls("readFile", filePath)
                    => ReadsCurrent(Last(out'), filePath)

\* C26: after clearCache, whatever calls preceded it and however the files
\* changed meanwhile, the next exists(p) and the next readFile(p) ask the
\* underlying filesystem and return its current answer.
PropC26 == [][FreshAfterClear]_vars

WitnessC26 ==
    /\ pc = "CachingFileSystem"
    /\ Len(arg) = 2
    /\ arg[1].op = "clearCache"
    /\ arg[2].op = "exists"
    /\ out[2].consulted /\ out[2].exists

\* Every path of the content cache is recorded as existing.
Coherent ==
    \A filePath \in DOMAIN contentCache :
        filePath \in DOMAIN existsCache /\ existsCache[filePath]

\* The last call made was a writeFile(filePath, content) that succeeded.
JustWrote(filePath, content) ==
    /\ arg # <<>>
    /\ Last(arg) = Call("writeFile", filePath, content)
    /\ ~Last(out).threw

CoherentStep ==
    /\ Coherent /\ Coherent'
    /\ \A filePath \in CachePaths :
          (Calls("readFile", filePath) /\ Last(out').threw)
              => UNCHANGED <<contentCache, existsCache>>
    /\ \A filePath \in CachePaths, content \in CacheContents :
          JustWrote(filePath, content)
              => /\ Calls("readFile", filePath)
                      => /\ ~Last(out').threw
                         /\ Last(out').content = content
                         /\ ~Last(out').consulted
                 /\ Calls("exists", filePath)
                      => Last(out').exists /\ ~Last(out').consulted

\* C30: across readFile, exists, writeFile and clearCache calls every path
\* of the content cache is recorded as existing in the existence cache; a
\* failed readFile adds nothing to either cache; after writeFile(p, c) the
\* next readFile(p) returns c and the next exists(p) true, neither asking
\* the underlying filesystem.
PropC30 == [][CoherentStep]_vars

WitnessC30 ==
    /\ pc = "CachingFileSystem"
    /\ Len(arg) = 2
    /\ arg[1].op = "writeFile" /\ ~out[1].threw
    /\ arg[2] = Call("readFile", arg[1].path, NoString)
    /\ out[2].content = arg[1].content /\ ~out[2].consulted
    /\ arg[1].path \notin disk


-----------------------------------------------------------------------------
(* Properties of watchRepositories *)

Runs == {"validated", "threw"}

\* The validation runs the log holds.
RunCount == Cardinality({k \in DOMAIN log : log[k] \in Runs})

\* C27: in watch mode every change event is followed by the clearing of
\* the filesystem cache and then by one validation run, nothing in between,
\* so that there is one run per event after the initial one; a run that
\* throws leaves the watcher watching, which only the stop function ends.
InvC27 ==
    pc \in {"watching", "stopped"}
        => /\ \A k \in DOMAIN log :
                 log[k] = "change"
                     => /\ k + 2 <= Len(log)
                        /\ log[k + 1] = "clear"
                        /\ log[k + 2] \in Runs
           /\ \A k \in DOMAIN log :
                 (log[k] \in Runs /\ k > 1)
                     => log[k - 1] = "clear" /\ log[k - 2] = "change"
           /\ RunCount = 1 + Changes
           /\ pc = "stopped" <=> Last(log) = "stop"
           /\ (pc = "watching" /\ Changes < MaxEvents) => ENABLED OnChange

WitnessC27 ==
    /\ pc = "watching"
    /\ Len(log) = 7
    /\ log[4] = "threw"
    /\ log[5] = "change" /\ log[6] = "clear" /\ log[7] = "validated"


-----------------------------------------------------------------------------
(* Properties of validatePipelines invoked again *)

\* C28: when validatePipelines is invoked again in the same process after
\* a referenced file was created or deleted, without a cache clear, every
\* local reference (existence check answered) is Valid exactly when a file
\* exists at its resolved path at the time of that invocation.
ClaimC28 ==
    out # <<>>
        => \A k \in Processed :
              (/\ checks[k].before.targetRepo = NoString
               /\ Head(checks[k].before.target) # "repository:"
               /\ ~checks[k].threw)
                  => (checks[k].outcome = VALID <=> LocalPath(k) \in disk)


-----------------------------------------------------------------------------
(* Properties of the result buckets *)

Failures == {BROKEN_PATH, MISSING_REPO, INVALID_VERSION}

\* The failure bucket of an outcome.
FailureBucket(outcome) ==
    IF outcome = INVALID_VERSION THEN versionIssues ELSE brokenReferences

\* The entries of a bucket that are the reference object itself are equal
\* to the reference as it is now.
Unedited(bucket, k) ==
    \A j \in EntriesOf(bucket, k) :
        ~bucket[j].copy => bucket[j].rec = allReferences[k]

\* C29: a reference is not edited once it is in a bucket, and a failure is
\* recorded on a copy: the entry of a reference classified BrokenPath,
\* MissingRepository or InvalidVersion is a new record with a rewritten
\* target, and the collected reference keeps its target, source, lineNumber
\* and context.
InvC29 ==
    \A k \in Processed :
        /\ allReferences[k].target = checks[k].before.target
        /\ allReferences[k].source = checks[k].before.source
        /\ allReferences[k].lineNumber = checks[k].before.lineNumber
        /\ allReferences[k].context = checks[k].before.context
        /\ Unedited(validReferences, k)
        /\ Unedited(brokenReferences, k)
        /\ Unedited(versionIssues, k)
        /\ checks[k].outcome \in Failures
              => /\ EntriesOf(FailureBucket(checks[k].outcome), k) # {}
                 /\ \A j \in EntriesOf(FailureBucket(checks[k].outcome), k) :
                       /\ FailureBucket(checks[k].outcome)[j].copy
                       /\ FailureBucket(checks[k].outcome)[j].rec.target
                            # checks[k].before.target

\* An external reference whose configured version was stored on it by the
\* call and whose file is missing at that version.
WitnessC29 ==
    \E k \in Processed :
        /\ checks[k].outcome = BROKEN_PATH
        /\ ~checks[k].threw
        /\ checks[k].before.targetRepo # NoString
        /\ allReferences[k].targetVersion # checks[k].before.targetVersion
        /\ allReferences[k].target = checks[k].before.target
        /\ \E j \in EntriesOf(brokenReferences, k) : brokenReferences[j].copy

====
